---- MODULE Spec2Model ----
(***************************************************************************)
(* Radial Ripple Lab (src/sketch.js): the ripple oscillator, the amplitude *)
(* sampler, the edge-triggered detector and the interaction handlers that  *)
(* change the wave field.                                                  *)
(*                                                                         *)
(* Numbers.  The sketch computes in IEEE doubles; the model computes in    *)
(* fixed point.  Distances and ripplePos are integers counting 1/Scale of  *)
(* a grid cell, amplitudes are integers counting 1/AmpScale, times are     *)
(* milliseconds.  Every product is taken before its division and the       *)
(* division floors.                                                        *)
(***************************************************************************)
EXTENDS Integers, Sequences, FiniteSets, TLC

\* ------------------------------------------------------------ config

GRID_COLS == 8
GRID_ROWS == 6
MAX_SCENES == 4
LONG_PRESS_MS == 400
MODULE_TYPES == <<"circle", "bar", "block", "diagonal">>
PALETTE_COUNT == 4

\* fixed-point units
Scale == 10
AmpScale == 1000

\* updateRipple's design constants, in model units
triggerThreshold == 700
waveWidth == 9
cycleMargin == 20
rippleSpeed == 1
DEFAULT_BPM == 96
BPM_MIN == 20
BPM_MAX == 240
BPM_STEP == 5

\* ------------------------------------------------------------ bounds

\* frame times (deltaTime, ms) the host may deliver
DtChoices == {0, 50, 1750, 5000}
CoarseDt == {500}
\* the scene slots and palette keys that are pressed
SceneSlots == {0, 3}
PaletteKeys == {1}
\* press durations (ms) between mousePressed and mouseReleased
PressChoices == {120, 400}
\* the cells the pointer is moved over; NoTile is a point off the grid
NoTile == 99
PointerCells == {0, 28, 30}
\* how many user inputs (keys, presses, releases) one run takes
MaxInputs == 3
\* how many wraps of ripplePos are counted after a restart of the wave
MaxCycles == 2
\* how many times the tile array is rebuilt
MaxReseeds == 1
\* how many clicks and shift+clicks a tile takes
MaxClicks == 6
\* how many frames are drawn between tempo key presses
MaxTempoFrames == 1
\* the cells that are clicked
ClickCells == {0, 28}
\* the row-sweep sketch: how many frames, keys and clicks one run takes,
\* its frame times (ms) and the cell that is clicked
MaxSweepSteps == 4
SweepDt == {0, 500, 2500, 25000}
SweepCells == {0}
\* the ring-sequencer sketch: how many frames, keys, presses and releases
\* one run takes, its frame times (ms), the tempos its keys are pressed at
\* and the cells the pointer is moved over
MaxRingSteps == 4
RingDt == {0, 100, 350, 1000}
RingTempos == {91, 96, 101}
RingCells == {0}
\* the glass-garden sketch: the score (points) below which light is gained,
\* how many fine gains one run takes, the cells near a click, the frame
\* times (ms), the cells a ripple meets in a frame and the upgrades that are
\* clicked in the overlay (Seed Bloom, Idle Drip)
MaxLight == 210
MaxFine == 1
GardenNear == {60}
GardenDt == {0, 25000}
GardenHits == {0, 1}
GardenUps == {2, 3}
\* how many edits are made between scene key presses, and where
MaxEdits == 2
SceneCells == {28}
\* how much playing time (ms) the clock of the timed frames counts
MaxClockMs == 600
\* frame times of the timed frames
TimedDt == {0, 50, 200, 500}
\* frame times of the frames without audio
MuteDt == {200, 500}
\* the cells and intensities the voices are dispatched for
VoiceCells == (0 .. (GRID_COLS - 1)) \cup {GRID_COLS * GRID_ROWS - 1}
VoiceAmps == {0, 700, 850, 1000}
\* the builds with fewer than two tiles: <<GRID_COLS, GRID_ROWS>>
DegenerateGrids == {<<1, 1>>, <<0, 0>>}

\* ------------------------------------------------------------ state

VARIABLES
  gridCols,           \* the value of GRID_COLS in the build that runs
  gridRows,           \* the value of GRID_ROWS in the build that runs
  tiles,              \* [TileIdx -> tile object]
  tilesGen,           \* which array `tiles` is: counts the rebuilds
  currentSeed,
  paletteIndex,
  scenes,             \* [0 .. MAX_SCENES-1 -> scene]
  isPlaying,
  bpm,
  originTile,         \* a tile reference <<array, index>>, or Null
  maxRippleDist,
  ripplePos,
  rippleCycleLength,
  pointerDownTile,    \* a tile reference, or Null
  audioApi,           \* window.AudioContext exists
  audioCtx,           \* audioCtx is not null
  log,                \* what the last handler did, in execution order
  counting,           \* the wave stepped finely since its last restart
  cycles,             \* wraps of ripplePos since the last restart
  trigCount,          \* per tile, wave triggers since the last restart
  clock,              \* the timed frames since the last restart of the wave
  strokes,            \* the clicks and shift+clicks made on each tile
  inputs,             \* user inputs taken so far
  rowSweep,           \* the globals of the row-sweep sketch
  ringSeq,            \* the globals of the ring-sequencer sketch
  garden              \* the globals of the glass-garden sketch

\* the globals of the final sketch, and those of the earlier sketches
sketchVars == <<gridCols, gridRows, tiles, tilesGen, currentSeed, paletteIndex,
                scenes, isPlaying, bpm, originTile, maxRippleDist, ripplePos,
                rippleCycleLength, pointerDownTile, audioApi, audioCtx, log,
                counting, cycles, trigCount, clock, strokes, inputs>>
variants == <<rowSweep, ringSeq, garden>>

vars == <<sketchVars, variants>>

\* ------------------------------------------------------------ helpers

TileCount == gridCols * gridRows
TileIdx == 0 .. (TileCount - 1)
ColOf(i) == i % gridCols
RowOf(i) == i \div gridCols

Abs(x) == IF x < 0 THEN -x ELSE x
Min(a, b) == IF a < b THEN a ELSE b
Max(a, b) == IF a > b THEN a ELSE b
constrain(x, lo, hi) == Max(Min(x, hi), lo)

\* floor of the square root
ISqrt(n) == CHOOSE r \in 0 .. (12 * Scale) : r * r <= n /\ (r + 1) * (r + 1) > n

\* Math.sqrt(dx*dx + dy*dy), in 1/Scale, for the offsets of a grid that is
\* no larger than the default one
DistTable ==
  [dx \in 0 .. (GRID_COLS - 1), dy \in 0 .. (GRID_ROWS - 1) |->
     ISqrt((dx * dx + dy * dy) * Scale * Scale)]
\* between tiles i and o of a grid of cols columns
EuclidDist(i, o, cols) ==
  DistTable[Abs((i % cols) - (o % cols)), Abs((i \div cols) - (o \div cols))]

\* exp(-z) for 0 <= z <= 1, both in 1/ExpScale: the Taylor series
ExpScale == 40000
RECURSIVE ExpSeries(_, _, _, _)
ExpSeries(z, n, term, acc) ==
  IF term = 0 THEN acc
  ELSE LET t == (term * z) \div (ExpScale * n)
       IN ExpSeries(z, n + 1, t, IF n % 2 = 1 THEN acc - t ELSE acc + t)
ExpNeg(z) == ExpSeries(z, 1, ExpScale, ExpScale)
Sq(v) == (v * v + ExpScale \div 2) \div ExpScale

\* Math.exp(-0.5 * x * x) with x = delta / width: exp(-y) = exp(-y/8)^8.
\* Past four widths the value is below 1/AmpScale and is 0 in the model.
AmpTable ==
  [delta \in 0 .. (4 * waveWidth - 1) |->
     LET z == (delta * delta * (ExpScale \div 8)) \div (2 * waveWidth * waveWidth)
     IN (Sq(Sq(Sq(ExpNeg(z)))) * AmpScale) \div ExpScale]
Gauss(delta) == IF delta >= 4 * waveWidth THEN 0 ELSE AmpTable[delta]

\* ------------------------------------------------------------ tiles

moduleStateCount(type) ==
  CASE type = "circle" -> 6
    [] type = "bar" -> 5
    [] type = "block" -> 5
    [] type = "diagonal" -> 5
    [] OTHER -> 1

emptyStateIndex(type) == IF type = "circle" THEN 5 ELSE 4

\* cols is GRID_COLS
moduleTypeForCol(col, cols) ==
  LET bandCount == Len(MODULE_TYPES)
      segment == (col * bandCount) \div cols
  IN MODULE_TYPES[constrain(segment, 0, bandCount - 1) + 1]

\* random(): the seeded generator of the drawing library.  A seed names one
\* stream of draws; Rand(seed, k) is draw k of it, in 1/RandRes of [0, 1).
RandRes == 12
Seeds == {0, 1}
Rand(seed, k) == (5 * k + 7 * seed + 3 * (k \div 4)) % RandRes

\* pickInitialState: the state chosen and the number of draws it took; rows
\* is GRID_ROWS
pickInitialState(seed, k, moduleType, row, rows) ==
  LET n == moduleStateCount(moduleType)
      emptyIndex == emptyStateIndex(moduleType)
      r == Rand(seed, k)
      \* r > densityBiasForRow(row), the bias being 0.5 on a grid of one row
      sparse == IF rows <= 1 THEN 2 * r > RandRes
                ELSE r * (rows - 1) > row * RandRes
  IN IF sparse
       THEN [state |-> emptyIndex, used |-> 1]
       ELSE LET s == (Rand(seed, k + 1) * (n - 1)) \div RandRes
            IN [state |-> IF s >= emptyIndex THEN s + 1 ELSE s, used |-> 2]

\* the tile object pushed by buildTilesFromSeed (col and row are its index)
NewTile(moduleType, initialState, colorIndex) ==
  [moduleType |-> moduleType,
   state |-> initialState,
   stateCount |-> moduleStateCount(moduleType),
   colorIndex |-> colorIndex,
   animActive |-> FALSE,
   animT |-> 1000,
   animDuration |-> 220,
   clickCount |-> 0,
   dist |-> 0,
   prevAmp |-> 0,
   currentAmp |-> 0]

\* the row and col loops of buildTilesFromSeed, from tile i and draw k on
RECURSIVE BuildFrom(_, _, _, _, _, _)
BuildFrom(cols, rows, seed, i, k, acc) ==
  IF i = cols * rows THEN [j \in 0 .. (cols * rows - 1) |-> acc[j + 1]]
  ELSE LET moduleType == moduleTypeForCol(i % cols, cols)
           pick == pickInitialState(seed, k, moduleType, i \div cols, rows)
           k1 == k + pick.used
           colorIndex == (Rand(seed, k1) * 3) \div RandRes
       IN BuildFrom(cols, rows, seed, i + 1, k1 + 2,
                    Append(acc, NewTile(moduleType, pick.state, colorIndex)))

\* the tile array of each build and seed, before the ripple origin is
\* initialised
Grids == {<<GRID_COLS, GRID_ROWS>>} \cup DegenerateGrids
SeededTiles ==
  [grid \in Grids, seed \in Seeds |->
     BuildFrom(grid[1], grid[2], seed, 0, 0, <<>>)]

\* ------------------------------------------------------------ references

Null == <<0, NoTile>>
Ref(gen, i) == <<gen, i>>
InTiles(ref, gen) == ref[1] = gen /\ ref[2] \in TileIdx

\* the globals a handler reads and writes, passed through the calls it makes
Globals ==
  [cols |-> gridCols, rows |-> gridRows,
   tiles |-> tiles, tilesGen |-> tilesGen, originTile |-> originTile,
   maxRippleDist |-> maxRippleDist, ripplePos |-> ripplePos,
   rippleCycleLength |-> rippleCycleLength, audioApi |-> audioApi,
   audioCtx |-> audioCtx, log |-> <<>>]

\* ------------------------------------------------------------ ripple sequencer

findTileAtGridIndex(g, col, row) ==
  IF col \in 0 .. (g.cols - 1) /\ row \in 0 .. (g.rows - 1)
    THEN Ref(g.tilesGen, row * g.cols + col)
    ELSE Null

SetMax(S) == CHOOSE x \in S : \A y \in S : y <= x

\* maxRippleDist kept at or above a positive floor
computeRippleDistancesFloored(g) ==
  IF g.originTile = Null THEN g
  ELSE LET o == g.originTile[2]
           d == [i \in DOMAIN g.tiles |-> EuclidDist(i, o, g.cols)]
           m == SetMax({1} \cup {d[i] : i \in DOMAIN g.tiles})
       IN [g EXCEPT
             !.tiles = [i \in DOMAIN g.tiles |->
                          [g.tiles[i] EXCEPT !.dist = d[i], !.prevAmp = 0,
                                             !.currentAmp = 0]],
             !.maxRippleDist = m,
             !.rippleCycleLength = m + cycleMargin,
             !.ripplePos = 0,
             !.log = Append(@, [ev |-> "reset"])]

\* the distance field recomputed under a wave that keeps its position
computeRippleDistancesKeepPos(g) ==
  IF g.originTile = Null THEN g
  ELSE LET o == g.originTile[2]
           d == [i \in DOMAIN g.tiles |-> EuclidDist(i, o, g.cols)]
           m == SetMax({0} \cup {d[i] : i \in DOMAIN g.tiles})
       IN [g EXCEPT
             !.tiles = [i \in DOMAIN g.tiles |->
                          [g.tiles[i] EXCEPT !.dist = d[i], !.prevAmp = 0,
                                             !.currentAmp = 0]],
             !.maxRippleDist = m,
             !.rippleCycleLength = m + cycleMargin,
             !.log = Append(@, [ev |-> "reset"])]

\* The origin is read through its reference: its col and row are those of
\* the object it points to, whichever array that object belongs to.
computeRippleDistances(g) ==
  IF g.originTile = Null THEN g
  ELSE LET o == g.originTile[2]
           d == [i \in DOMAIN g.tiles |-> EuclidDist(i, o, g.cols)]
           m == SetMax({0} \cup {d[i] : i \in DOMAIN g.tiles})
       IN [g EXCEPT
             !.tiles = [i \in DOMAIN g.tiles |->
                          [g.tiles[i] EXCEPT !.dist = d[i], !.prevAmp = 0,
                                             !.currentAmp = 0]],
             !.maxRippleDist = m,
             !.rippleCycleLength = m + cycleMargin,
             !.ripplePos = 0,
             !.log = Append(@, [ev |-> "reset"])]

initRippleOrigin(g) ==
  LET centre == findTileAtGridIndex(g, g.cols \div 2, g.rows \div 2)
      origin == IF centre # Null THEN centre
                ELSE IF DOMAIN g.tiles # {} THEN Ref(g.tilesGen, 0) ELSE Null
  IN computeRippleDistances([g EXCEPT !.originTile = origin])

buildTilesFromSeed(g, seed) ==
  initRippleOrigin([g EXCEPT !.tiles = SeededTiles[<<g.cols, g.rows>>, seed],
                             !.tilesGen = @ + 1])

triggerTileAnimation(tile, hard) ==
  [tile EXCEPT !.animActive = TRUE, !.animT = 0,
               !.animDuration = IF hard THEN 260 ELSE 220]

\* ------------------------------------------------------------ audio engine

\* initAudio, ensureAudioRunning: the context is created on first use, where
\* the host has one to create
initAudio(g) == IF g.audioApi THEN [g EXCEPT !.audioCtx = TRUE] ELSE g

ensureAudioRunning(g) == IF ~g.audioCtx THEN initAudio(g) ELSE g

\* tile.state / (tile.stateCount - 1), in 1/unit
stateNorm(tile, unit) ==
  IF tile.stateCount > 1 THEN (tile.state * unit) \div (tile.stateCount - 1)
  ELSE 0

\* lerp(0.7, 1.3, amp), in 1/5000
ampLerp(amp) == 3500 + 3 * amp

\* lerp(0.8, 1.2, stateNorm), in 1/50
stateLerp(tile) == 40 + stateNorm(tile, 20)

\* the factors of the accent and the secondary colour exchanged
colorVelSwapped(tile, accent, secondary) ==
  IF tile.colorIndex = 2 THEN secondary
  ELSE IF tile.colorIndex = 1 THEN accent
  ELSE 20

\* the factor of the tile's colour, in 1/20
colorVel(tile, accent, secondary) ==
  IF tile.colorIndex = 2 THEN accent
  ELSE IF tile.colorIndex = 1 THEN secondary
  ELSE 20

\* the columns spread over the whole stereo field
connectVoiceToOutputFull(i) ==
  IF gridCols > 1 THEN (2000 * ColOf(i)) \div (gridCols - 1) - 1000 ELSE 0

\* the pan set on the panner node, in 1/1000
connectVoiceToOutput(i) ==
  IF gridCols > 1 THEN (1600 * ColOf(i)) \div (gridCols - 1) - 800 ELSE 0

\* The voices: what each asks of the audio context.  duration is in
\* microseconds; gain is the peak of the envelope (vel), in 1/500000000.
playBellGrain(i, tile, amp) ==
  [family |-> "bell",
   duration |-> 250000 + 650 * amp,
   gain |-> 18 * colorVel(tile, 28, 17) * ampLerp(amp) * stateLerp(tile),
   pan |-> connectVoiceToOutput(i)]

\* the wood block lasting longer in a higher state
playWoodBlockGrainRising(i, tile, amp) ==
  [family |-> "woodblock",
   duration |-> 40000 + stateNorm(tile, 100000),
   gain |-> 22 * colorVel(tile, 24, 18) * ampLerp(amp) * 50,
   pan |-> connectVoiceToOutput(i)]

playWoodBlockGrain(i, tile, amp) ==
  [family |-> "woodblock",
   duration |-> 40000 + (100000 - stateNorm(tile, 100000)),
   gain |-> 22 * colorVel(tile, 24, 18) * ampLerp(amp) * 50,
   pan |-> connectVoiceToOutput(i)]

playChordGrain(i, tile, amp) ==
  [family |-> "chord",
   duration |-> 180000 + stateNorm(tile, 420000),
   gain |-> 16 * colorVel(tile, 26, 17) * ampLerp(amp) * 50,
   pan |-> connectVoiceToOutput(i)]

playMetallicGrain(i, tile, amp) ==
  [family |-> "metallic",
   duration |-> 180000 + 520 * amp,
   gain |-> 14 * colorVel(tile, 28, 18) * ampLerp(amp) * stateLerp(tile),
   pan |-> connectVoiceToOutput(i)]

\* triggerGrainFromTile after its ensureAudioRunning(): `audio` says whether
\* audioCtx is set by then.  The call, and the voices it played.
triggerGrainFromTile(i, tile, amp, audio) ==
  [ev |-> "grain", tile |-> i, moduleType |-> tile.moduleType, amp |-> amp,
   voices |-> IF ~audio THEN <<>>
              ELSE CASE tile.moduleType = "circle" -> <<playBellGrain(i, tile, amp)>>
                     [] tile.moduleType = "bar" -> <<playWoodBlockGrain(i, tile, amp)>>
                     [] tile.moduleType = "block" -> <<playChordGrain(i, tile, amp)>>
                     [] tile.moduleType = "diagonal" -> <<playMetallicGrain(i, tile, amp)>>
                     [] OTHER -> <<playBellGrain(i, tile, amp)>>]

\* ------------------------------------------------------------ wave

\* the trigger animating the tile only where a voice can sound
handleRippleOnTileNeedsAudio(i, tile, amp, audio) ==
  [tile |-> IF audio THEN triggerTileAnimation(tile, FALSE) ELSE tile,
   grains |-> <<triggerGrainFromTile(i, tile, amp, audio)>>]

\* the tile after the trigger, and the grains requested
handleRippleOnTile(i, tile, amp, audio) ==
  [tile |-> triggerTileAnimation(tile, FALSE),
   grains |-> <<triggerGrainFromTile(i, tile, amp, audio)>>]

\* the wave reaching the furthest tile in one beat
rippleIncrementPerBeat(bpmNow, maxDist, dtMs) ==
  (bpmNow * rippleSpeed * maxDist * dtMs) \div (60 * 1000)

\* radialSpeed * dt, dt = dtMs / 1000
rippleIncrement(bpmNow, maxDist, dtMs) ==
  (bpmNow * rippleSpeed * maxDist * dtMs) \div (60 * 2 * 1000)

wrapRipplePos(raw, cyc) ==
  IF raw > cyc THEN raw - cyc * (raw \div cyc) ELSE raw

\* the distance behind the wavefront taken as no distance
sampleAmpOneSided(dist, pos) == Gauss(Max(dist - pos, 0))

sampleAmp(dist, pos) == Gauss(Abs(dist - pos))

\* a crossing in either direction in place of the upward one
crossesEitherWay(prev, amp) == (prev < triggerThreshold) # (amp < triggerThreshold)

\* an exclusive lower bound in place of the inclusive one
crossesUpStrict(prev, amp) == prev < triggerThreshold /\ amp > triggerThreshold

\* a trigger whenever the tile was below the threshold
crossesFromBelow(prev, amp) == prev < triggerThreshold

crossesUp(prev, amp) == prev < triggerThreshold /\ amp >= triggerThreshold

\* prevAmp overwritten before the comparison reads it
detectTileEarlyStore(i, tile, amp, audio) ==
  LET t1 == [tile EXCEPT !.currentAmp = amp, !.prevAmp = amp]
      hit == IF crossesUp(t1.prevAmp, amp) THEN handleRippleOnTile(i, t1, amp, audio)
             ELSE [tile |-> t1, grains |-> <<>>]
  IN [tile |-> hit.tile, grains |-> hit.grains]

\* prevAmp never overwritten
detectTileNoStore(i, tile, amp, audio) ==
  LET t1 == [tile EXCEPT !.currentAmp = amp]
      hit == IF crossesUp(tile.prevAmp, amp) THEN handleRippleOnTile(i, t1, amp, audio)
             ELSE [tile |-> t1, grains |-> <<>>]
  IN [tile |-> hit.tile, grains |-> hit.grains]

\* One pass of the tile loop of updateRipple, from the sampled amplitude on:
\* the tile afterwards and the grains requested.
detectTile(i, tile, amp, audio) ==
  LET prev == tile.prevAmp
      t1 == [tile EXCEPT !.currentAmp = amp]
      hit == IF crossesUp(prev, amp) THEN handleRippleOnTile(i, t1, amp, audio)
             ELSE [tile |-> t1, grains |-> <<>>]
  IN [tile |-> [hit.tile EXCEPT !.prevAmp = amp], grains |-> hit.grains]

\* each pass sampling against a position of its own
rippleTileDrift(i, tile, pos, audio) ==
  LET hit == detectTile(i, tile, sampleAmp(tile.dist, pos + i), audio)
  IN [tile |-> hit.tile, pos |-> pos, grains |-> hit.grains]

\* one pass of the tile loop: the position sampled against, and the above
rippleTile(i, tile, pos, audio) ==
  LET hit == detectTile(i, tile, sampleAmp(tile.dist, pos), audio)
  IN [tile |-> hit.tile, pos |-> pos, grains |-> hit.grains]

\* The tile loop of updateRipple.  The log keeps the positions the passes
\* sampled against and, in tile order, the grains they requested.
RECURSIVE Flatten(_, _)
Flatten(per, i) ==
  IF i = TileCount THEN <<>> ELSE per[i].grains \o Flatten(per, i + 1)

rippleLoop(g) ==
  LET ready == ensureAudioRunning(g)
      per == [i \in TileIdx |->
                rippleTile(i, g.tiles[i], g.ripplePos, ready.audioCtx)]
      grains == Flatten(per, 0)
  IN [g EXCEPT
        !.tiles = [i \in TileIdx |-> per[i].tile],
        !.audioCtx = IF grains = <<>> THEN @ ELSE ready.audioCtx,
        !.log = Append(@, [ev |-> "ripple",
                           seen |-> {per[i].pos : i \in TileIdx},
                           grains |-> grains])]

\* the tile loop run before the position is advanced
updateRippleLate(g, dtMs, bpmNow) ==
  IF g.originTile = Null \/ g.maxRippleDist <= 0 THEN g
  ELSE LET g1 == rippleLoop(g)
           raw == g.ripplePos + rippleIncrement(bpmNow, g.maxRippleDist, dtMs)
           cyc == IF g.rippleCycleLength <= 0
                    THEN g.maxRippleDist + cycleMargin
                    ELSE g.rippleCycleLength
           pos == wrapRipplePos(raw, cyc)
       IN [g1 EXCEPT !.ripplePos = pos, !.rippleCycleLength = cyc,
                     !.log = Append(@, [ev |-> "advance", pos |-> pos,
                                        raw |-> raw])]

\* no early return on a distance field of radius 0
updateRippleNoGuard(g, dtMs, bpmNow) ==
  IF g.originTile = Null THEN g
  ELSE LET raw == g.ripplePos + rippleIncrement(bpmNow, g.maxRippleDist, dtMs)
           cyc == IF g.rippleCycleLength <= 0
                    THEN g.maxRippleDist + cycleMargin
                    ELSE g.rippleCycleLength
           pos == wrapRipplePos(raw, cyc)
       IN rippleLoop([g EXCEPT
                        !.ripplePos = pos, !.rippleCycleLength = cyc,
                        !.log = Append(@, [ev |-> "advance", pos |-> pos,
                                           raw |-> raw])])

updateRipple(g, dtMs, bpmNow) ==
  IF g.originTile = Null \/ g.maxRippleDist <= 0 THEN g
  ELSE LET raw == g.ripplePos + rippleIncrement(bpmNow, g.maxRippleDist, dtMs)
           cyc == IF g.rippleCycleLength <= 0
                    THEN g.maxRippleDist + cycleMargin
                    ELSE g.rippleCycleLength
           pos == wrapRipplePos(raw, cyc)
       IN rippleLoop([g EXCEPT
                        !.ripplePos = pos, !.rippleCycleLength = cyc,
                        !.log = Append(@, [ev |-> "advance", pos |-> pos,
                                           raw |-> raw])])

updateTile(tile, dtMs) ==
  IF tile.animActive
    THEN LET t == tile.animT + (dtMs * 1000) \div tile.animDuration
         IN IF t >= 1000 THEN [tile EXCEPT !.animT = 1000, !.animActive = FALSE]
            ELSE [tile EXCEPT !.animT = t]
    ELSE tile

\* drawTile: the amplitude the tile is rendered with
drawTile(tile, playing) == IF playing THEN tile.currentAmp ELSE 0

\* The tile loop of draw.  The log keeps the amplitudes rendered.
drawLoop(g, dtMs, playing) ==
  LET ts == [i \in TileIdx |-> updateTile(g.tiles[i], dtMs)]
  IN [g EXCEPT
        !.tiles = ts,
        !.log = Append(@, [ev |-> "render",
                           shown |-> {drawTile(ts[i], playing) : i \in TileIdx}])]

\* updateRipple called whether playing or not
drawAlways(g, dtMs, playing, bpmNow) ==
  LET g0 == [g EXCEPT !.log = <<[ev |-> "frame", pos |-> g.ripplePos]>>]
  IN drawLoop(updateRipple(g0, dtMs, bpmNow), dtMs, playing)

draw(g, dtMs, playing, bpmNow) ==
  LET g0 == [g EXCEPT !.log = <<[ev |-> "frame", pos |-> g.ripplePos]>>]
      g1 == IF playing THEN updateRipple(g0, dtMs, bpmNow) ELSE g0
  IN drawLoop(g1, dtMs, playing)

\* ------------------------------------------------------------ interaction

\* findTileAt(mouseX, mouseY): the pointer is over cell `cell` of the grid,
\* or over no cell (NoTile); the rectangles of the tiles do not overlap.
findTileAt(g, cell) == IF cell \in TileIdx THEN Ref(g.tilesGen, cell) ELSE Null

\* JavaScript's %: the sign of the result is that of the dividend
JsRem(a, n) == IF a >= 0 THEN a % n ELSE -((-a) % n)

registerTileChange(tile) == [tile EXCEPT !.clickCount = @ + 1]

\* the remainder of the step taken once, with the sign of the dividend
advanceTileStatePlainRem(tile, direction) ==
  LET n == tile.stateCount
      t1 == [tile EXCEPT !.state = JsRem(tile.state + direction, n)]
  IN triggerTileAnimation(registerTileChange(t1), FALSE)

advanceTileState(tile, direction) ==
  LET n == tile.stateCount
      t1 == [tile EXCEPT !.state = JsRem(JsRem(tile.state + direction, n) + n, n)]
  IN triggerTileAnimation(registerTileChange(t1), FALSE)

\* the state carried over to the new module type as it is
changeTileModuleNoClamp(tile, pick) ==
  LET current == tile.moduleType
      choices == SelectSeq(MODULE_TYPES, LAMBDA m : m # current)
      type == choices[pick]
      t1 == [tile EXCEPT !.moduleType = type,
                         !.stateCount = moduleStateCount(type)]
  IN triggerTileAnimation(registerTileChange(t1), TRUE)

\* the new type drawn from all the module types, the current one included
changeTileModuleAny(tile, pick) ==
  LET type == MODULE_TYPES[pick]
      t1 == [tile EXCEPT !.moduleType = type,
                         !.stateCount = moduleStateCount(type),
                         !.state = constrain(tile.state, 0, moduleStateCount(type) - 1)]
  IN triggerTileAnimation(registerTileChange(t1), TRUE)

\* random(choices) is the entry `pick` of the three other module types
changeTileModule(tile, pick) ==
  LET current == tile.moduleType
      choices == SelectSeq(MODULE_TYPES, LAMBDA m : m # current)
      type == choices[pick]
      t1 == [tile EXCEPT !.moduleType = type,
                         !.stateCount = moduleStateCount(type),
                         !.state = constrain(tile.state, 0, moduleStateCount(type) - 1)]
  IN triggerTileAnimation(registerTileChange(t1), TRUE)

\* a long press that sets the origin and leaves the distance field as it was
mouseReleasedNoRecompute(g, down, cell, pressDuration, alt, shift, pick) ==
  LET tile == findTileAt(g, cell)
      g0 == [g EXCEPT !.log = Append(@, [ev |-> "release", down |-> down,
                                         tile |-> tile,
                                         pressDuration |-> pressDuration])]
  IN IF tile # Null /\ tile = down /\ pressDuration >= LONG_PRESS_MS
       THEN [g0 EXCEPT !.originTile = tile,
                       !.tiles[tile[2]] = triggerTileAnimation(@, TRUE)]
     ELSE g0

\* the pressed tile compared by its cell, and made the origin itself
mouseReleasedByCell(g, down, cell, pressDuration, alt, shift, pick) ==
  LET tile == findTileAt(g, cell)
      g0 == [g EXCEPT !.log = Append(@, [ev |-> "release", down |-> down,
                                         tile |-> tile,
                                         pressDuration |-> pressDuration])]
  IN IF tile # Null /\ tile[2] = down[2] /\ pressDuration >= LONG_PRESS_MS
       THEN LET g1 == computeRippleDistances([g0 EXCEPT !.originTile = down])
            IN [g1 EXCEPT !.tiles[tile[2]] = triggerTileAnimation(@, TRUE)]
     ELSE g0

\* a press taken as long only past the threshold
mouseReleasedStrictLong(g, down, cell, pressDuration, alt, shift, pick) ==
  LET tile == findTileAt(g, cell)
      g0 == [g EXCEPT !.log = Append(@, [ev |-> "release", down |-> down,
                                         tile |-> tile,
                                         pressDuration |-> pressDuration])]
  IN IF tile # Null /\ tile = down /\ pressDuration > LONG_PRESS_MS
       THEN LET g1 == computeRippleDistances([g0 EXCEPT !.originTile = tile])
            IN [g1 EXCEPT !.tiles[tile[2]] = triggerTileAnimation(@, TRUE)]
     ELSE IF tile # Null /\ tile = down
       THEN LET i == tile[2]
                keys == [g0 EXCEPT !.log = Append(@, [ev |-> "keys", alt |-> alt,
                                                      shift |-> shift])]
                g1 == IF alt
                        THEN [keys EXCEPT !.tiles[i] = changeTileModule(@, pick)]
                        ELSE [keys EXCEPT !.tiles[i] =
                                advanceTileState(@, IF shift THEN -1 ELSE 1)]
                ready == ensureAudioRunning(g1)
            IN [ready EXCEPT
                  !.log = Append(@, triggerGrainFromTile(i, g1.tiles[i], AmpScale,
                                                         ready.audioCtx))]
     ELSE g0

\* mouseReleased, given pointerDownTile # Null; pointerDownTile is cleared
\* by the action.  The log keeps what the handler read.
mouseReleased(g, down, cell, pressDuration, alt, shift, pick) ==
  LET tile == findTileAt(g, cell)
      g0 == [g EXCEPT !.log = Append(@, [ev |-> "release", down |-> down,
                                         tile |-> tile,
                                         pressDuration |-> pressDuration])]
  IN IF tile # Null /\ tile = down /\ pressDuration >= LONG_PRESS_MS
       THEN LET g1 == computeRippleDistances([g0 EXCEPT !.originTile = tile])
            IN [g1 EXCEPT !.tiles[tile[2]] = triggerTileAnimation(@, TRUE)]
     ELSE IF tile # Null /\ tile = down
       THEN LET i == tile[2]
                keys == [g0 EXCEPT !.log = Append(@, [ev |-> "keys", alt |-> alt,
                                                      shift |-> shift])]
                g1 == IF alt
                        THEN [keys EXCEPT !.tiles[i] = changeTileModule(@, pick)]
                        ELSE [keys EXCEPT !.tiles[i] =
                                advanceTileState(@, IF shift THEN -1 ELSE 1)]
                ready == ensureAudioRunning(g1)
            IN [ready EXCEPT
                  !.log = Append(@, triggerGrainFromTile(i, g1.tiles[i], AmpScale,
                                                         ready.audioCtx))]
     ELSE g0

EmptyScene == [stored |-> FALSE, paletteIndex |-> 0, seed |-> 0,
               cols |-> 0, rows |-> 0, tiles |-> <<>>]

storeScene(sc, index, g, palette, seed) ==
  IF index < 0 \/ index >= MAX_SCENES THEN sc
  ELSE [sc EXCEPT ![index] =
          [stored |-> TRUE, paletteIndex |-> palette, seed |-> seed,
           cols |-> gridCols, rows |-> gridRows,
           tiles |-> [i \in TileIdx |->
                        [moduleType |-> g.tiles[i].moduleType,
                         state |-> g.tiles[i].state,
                         colorIndex |-> g.tiles[i].colorIndex]]]]

\* a recall that leaves the tile colours as they are
recallSceneKeepColor(g, scene) ==
  computeRippleDistances(
    [g EXCEPT !.log = Append(@, [ev |-> "recall"]),
              !.tiles =
       [i \in TileIdx |->
          LET snap == scene.tiles[i]
              n == moduleStateCount(snap.moduleType)
          IN triggerTileAnimation(
               [g.tiles[i] EXCEPT !.moduleType = snap.moduleType,
                                  !.stateCount = n,
                                  !.state = constrain(snap.state, 0, n - 1)],
               TRUE)]])

\* recallScene past its two early returns: the tile loop and the recompute
recallScene(g, scene) ==
  computeRippleDistances(
    [g EXCEPT !.log = Append(@, [ev |-> "recall"]),
              !.tiles =
       [i \in TileIdx |->
          LET snap == scene.tiles[i]
              n == moduleStateCount(snap.moduleType)
          IN triggerTileAnimation(
               [g.tiles[i] EXCEPT !.moduleType = snap.moduleType,
                                  !.stateCount = n,
                                  !.state = constrain(snap.state, 0, n - 1),
                                  !.colorIndex = snap.colorIndex],
               TRUE)]])

sceneUsable(scene) ==
  scene.stored /\ scene.cols = gridCols /\ scene.rows = gridRows

\* ------------------------------------------------------------ bookkeeping

HasEv(l, e) == \E k \in 1 .. Len(l) : l[k].ev = e
EvOf(l, e) == l[CHOOSE k \in 1 .. Len(l) : l[k].ev = e]
\* the wave triggers of tile i in the handler whose log is l
Fired(l, i) ==
  IF HasEv(l, "ripple")
    THEN LET gr == EvOf(l, "ripple").grains
         IN Cardinality({k \in 1 .. Len(gr) : gr[k].tile = i})
    ELSE 0
NoCount == [i \in TileIdx |-> 0]

\* a step much smaller than the wavefront band
FineStep(inc) == 4 * inc <= waveWidth

\* The counters of the current run of the wave: restarted with the wave,
\* kept while it steps finely for at most MaxCycles wraps, dropped otherwise.
Count(g) ==
  IF HasEv(g.log, "reset")
    THEN counting' = TRUE /\ cycles' = 0 /\ trigCount' = NoCount
  ELSE IF HasEv(g.log, "advance")
    THEN LET a == EvOf(g.log, "advance")
             wraps == (a.raw - a.pos) \div g.rippleCycleLength
         IN IF counting /\ FineStep(a.raw - ripplePos) /\ cycles + wraps <= MaxCycles
              THEN /\ counting' = TRUE
                   /\ cycles' = cycles + wraps
                   /\ trigCount' = [i \in TileIdx |->
                                      trigCount[i] + Fired(g.log, i)]
              ELSE counting' = FALSE /\ cycles' = 0 /\ trigCount' = NoCount
  ELSE UNCHANGED <<counting, cycles, trigCount>>

\* The timed frames since the wave restarted: the last frame's deltaTime,
\* the playing time (ms, counted up to MaxClockMs), the tiles the wave has
\* triggered, and whether every playing frame ran at the default tempo.
NoClock == [dt |-> 0, ms |-> 0, fired |-> {}, steady |-> TRUE]

Tick(g, dtMs) ==
  IF HasEv(g.log, "advance")
    THEN [dt |-> dtMs,
          ms |-> Min(clock.ms + dtMs, MaxClockMs),
          fired |-> clock.fired \cup {i \in TileIdx : Fired(g.log, i) > 0},
          steady |-> clock.steady /\ bpm = DEFAULT_BPM]
    ELSE [clock EXCEPT !.dt = dtMs]

\* The clicks since setup: per tile the clicks and the shift+clicks made on
\* it, and the last of them (the tile, its direction, the state it found).
NoStrokes == [fwd |-> [i \in TileIdx |-> 0], back |-> [i \in TileIdx |-> 0],
              last |-> [tile |-> NoTile, direction |-> 0, before |-> 0]]

Stroke(i, direction) ==
  [fwd |-> IF direction = 1 THEN [strokes.fwd EXCEPT ![i] = @ + 1] ELSE strokes.fwd,
   back |-> IF direction = -1 THEN [strokes.back EXCEPT ![i] = @ + 1] ELSE strokes.back,
   last |-> [tile |-> i, direction |-> direction, before |-> tiles[i].state]]

\* the handler's globals become the state
Commit(g) ==
  /\ tiles' = g.tiles
  /\ tilesGen' = g.tilesGen
  /\ originTile' = g.originTile
  /\ maxRippleDist' = g.maxRippleDist
  /\ ripplePos' = g.ripplePos
  /\ rippleCycleLength' = g.rippleCycleLength
  /\ audioCtx' = g.audioCtx
  /\ log' = g.log
  /\ UNCHANGED <<gridCols, gridRows, audioApi, variants>>
  /\ Count(g)

Apply(g) ==
  /\ Commit(g)
  /\ clock' = IF HasEv(g.log, "reset") THEN NoClock ELSE clock
  /\ UNCHANGED strokes

\* ------------------------------------------------------------ row sweep

\* The row-sweep sketch.  sweep.pos and prevSweepPos are in 1/RowScale of a
\* row, sweep.speed in tenths of a row per second, frame times in ms.
RowScale == 10000
SweepRows == GRID_ROWS * RowScale
SWEEP_SPEED_MIN == 1
SWEEP_SPEED_MAX == 30

\* the tile pushed by its buildTilesFromSeed: the same draws as in the final
\* sketch, a role drawn where that one draws a colour
sweepTiles(seed) ==
  [i \in 0 .. (GRID_COLS * GRID_ROWS - 1) |->
     LET t == SeededTiles[<<GRID_COLS, GRID_ROWS>>, seed][i]
     IN [row |-> i \div GRID_COLS, state |-> t.state,
         stateCount |-> t.stateCount, clickCount |-> 0]]

sweepSetup(seed) ==
  [playMode |-> FALSE, pos |-> 0, speed |-> 6, autoAdvance |-> TRUE,
   prevSweepPos |-> 0, tiles |-> sweepTiles(seed), log |-> <<>>, steps |-> 0]

sweepAdvanceTileState(tile, direction) ==
  LET n == tile.stateCount
  IN [tile EXCEPT !.state = JsRem(JsRem(tile.state + direction, n) + n, n),
                  !.clickCount = @ + 1]

\* whether the tile loop of updateSweep advances the tile
sweepCrosses(tile, prevPos, pos) ==
  LET centerRow == tile.row * RowScale + RowScale \div 2
      curr == IF pos < prevPos THEN pos + SweepRows ELSE pos
      tileCenter == IF centerRow < prevPos THEN centerRow + SweepRows
                    ELSE centerRow
  IN prevPos <= tileCenter /\ curr > tileCenter

\* the advances of tiles i, i + 1, ... in loop order
RECURSIVE sweepAdvanced(_, _)
sweepAdvanced(hit, i) ==
  IF i = GRID_COLS * GRID_ROWS THEN <<>>
  ELSE (IF hit[i] THEN <<i>> ELSE <<>>) \o sweepAdvanced(hit, i + 1)

\* The log keeps the tiles advanced, one entry per call of advanceTileState.
updateSweep(s, dtMs) ==
  LET moved == s.pos + dtMs * s.speed
      over == IF moved >= SweepRows THEN moved - SweepRows ELSE moved
      pos == IF over < 0 THEN over + SweepRows ELSE over
      s1 == [s EXCEPT !.prevSweepPos = s.pos, !.pos = pos, !.log = <<>>]
      hit == [i \in DOMAIN s.tiles |-> sweepCrosses(s.tiles[i], s.pos, pos)]
  IN IF ~s.autoAdvance THEN s1
     ELSE [s1 EXCEPT
             !.tiles = [i \in DOMAIN s.tiles |->
                          IF hit[i] THEN sweepAdvanceTileState(s.tiles[i], 1)
                          ELSE s.tiles[i]],
             !.log = sweepAdvanced(hit, 0)]

\* ------------------------------------------------------------ ring sequencer

\* The ring-sequencer sketch.  rippleTimer and the frame times are in
\* 1/RingRes ms, so that secondsPerRing is a whole number at every tempo in
\* RingTempos.
RECURSIVE SetProduct(_)
SetProduct(S) ==
  IF S = {} THEN 1 ELSE LET x == CHOOSE y \in S : TRUE IN x * SetProduct(S \ {x})
RingRes == SetProduct(RingTempos)

RingIdx == 0 .. (GRID_COLS * GRID_ROWS - 1)

Manhattan(i, o) ==
  Abs((i % GRID_COLS) - (o % GRID_COLS))
    + Abs((i \div GRID_COLS) - (o \div GRID_COLS))

\* the tile pushed by its buildTilesFromSeed
ringTiles(seed) ==
  [i \in RingIdx |->
     LET t == SeededTiles[<<GRID_COLS, GRID_ROWS>>, seed][i]
     IN [moduleType |-> t.moduleType, state |-> t.state,
         stateCount |-> t.stateCount, colorIndex |-> t.colorIndex,
         animActive |-> FALSE, animT |-> 1000, animDuration |-> 220,
         clickCount |-> 0, ring |-> 0]]

computeRippleRings(r) ==
  IF r.originTile = Null THEN r
  ELSE LET o == r.originTile[2]
           ring == [i \in RingIdx |-> Manhattan(i, o)]
       IN [r EXCEPT
             !.tiles = [i \in RingIdx |-> [r.tiles[i] EXCEPT !.ring = ring[i]]],
             !.maxRippleRing = SetMax({0} \cup {ring[i] : i \in RingIdx})]

ringInitRippleOrigin(r) ==
  LET centre == Ref(r.tilesGen, (GRID_ROWS \div 2) * GRID_COLS + GRID_COLS \div 2)
      r1 == computeRippleRings([r EXCEPT !.originTile = centre])
  IN [r1 EXCEPT !.rippleIndex = 0, !.rippleTimer = 0]

ringBuildTilesFromSeed(r, seed) ==
  ringInitRippleOrigin([r EXCEPT !.tiles = ringTiles(seed), !.tilesGen = @ + 1])

ringSetup(seed) ==
  ringInitRippleOrigin(ringBuildTilesFromSeed(
    [tiles |-> <<>>, tilesGen |-> 0, isPlaying |-> FALSE, bpm |-> DEFAULT_BPM,
     originTile |-> Null, maxRippleRing |-> 0, rippleIndex |-> 0,
     rippleTimer |-> 0, pointerDownTile |-> Null, log |-> <<>>, steps |-> 0],
    seed))

\* (60 / bpm / 2) / rippleSpeed
secondsPerRing(bpmNow) == 30000 * (RingRes \div (bpmNow * rippleSpeed))

\* handleRippleOnTile on the tiles of ring `index`
ringLoop(r, index) ==
  [r EXCEPT
     !.tiles = [i \in RingIdx |->
                  IF r.tiles[i].ring = index
                    THEN triggerTileAnimation(r.tiles[i], FALSE)
                    ELSE r.tiles[i]],
     !.log = Append(@, [ev |-> "step", index |-> index,
                        tiles |-> {i \in RingIdx : r.tiles[i].ring = index}])]

\* one ring step, however much time has elapsed
ringCatchOnce(r, spr) ==
  IF r.rippleTimer >= spr
    THEN ringLoop([r EXCEPT !.rippleTimer = @ - spr,
                            !.rippleIndex = (@ + 1) % (r.maxRippleRing + 1)],
                  (r.rippleIndex + 1) % (r.maxRippleRing + 1))
    ELSE r

\* the while loop of updateRipple
RECURSIVE ringCatchUp(_, _)
ringCatchUp(r, spr) ==
  IF r.rippleTimer >= spr
    THEN ringCatchUp(
           ringLoop([r EXCEPT !.rippleTimer = @ - spr,
                              !.rippleIndex = (@ + 1) % (r.maxRippleRing + 1)],
                    (r.rippleIndex + 1) % (r.maxRippleRing + 1)),
           spr)
    ELSE r

ringUpdateRipple(r, dtMs) ==
  IF r.originTile = Null THEN r
  ELSE ringCatchUp([r EXCEPT !.rippleTimer = @ + dtMs * RingRes,
                             !.log = Append(@, [ev |-> "advance", dt |-> dtMs])],
                   secondsPerRing(r.bpm))

ringDraw(r, dtMs) ==
  LET r0 == [r EXCEPT !.log = <<>>]
      r1 == IF r.isPlaying THEN ringUpdateRipple(r0, dtMs) ELSE r0
  IN [r1 EXCEPT !.tiles = [i \in RingIdx |-> updateTile(r1.tiles[i], dtMs)]]

\* mouseReleased, given pointerDownTile # Null
ringMouseReleased(r, cell, pressDuration, alt, shift, pick) ==
  LET tile == IF cell \in RingIdx THEN Ref(r.tilesGen, cell) ELSE Null
      r0 == [r EXCEPT !.log = <<>>, !.pointerDownTile = Null]
  IN IF tile # Null /\ tile = r.pointerDownTile /\ pressDuration >= LONG_PRESS_MS
       THEN LET r1 == computeRippleRings([r0 EXCEPT !.originTile = tile])
            IN [r1 EXCEPT !.rippleIndex = 0, !.rippleTimer = 0,
                          !.tiles[cell] = triggerTileAnimation(@, TRUE),
                          !.log = <<[ev |-> "origin", tile |-> cell]>>]
     ELSE IF tile # Null /\ tile = r.pointerDownTile
       THEN [r0 EXCEPT
               !.tiles[cell] =
                  IF alt THEN changeTileModule(@, pick)
                  ELSE advanceTileState(@, IF shift THEN -1 ELSE 1),
               !.log = <<[ev |-> "grain", tile |-> cell,
                          ringIndex |-> r.tiles[cell].ring]>>]
     ELSE r0

\* ------------------------------------------------------------ glass garden

\* The glass-garden sketch.  lightScore and the costs are in 1/LightScale of
\* a point, costFactor and the ripple strengths in tenths, frame times in ms.
LightScale == 10000

upgrades ==
  <<[id |-> "ripplePower", maxLevel |-> 5, baseCost |-> 10, costFactor |-> 23],
    [id |-> "seedChance", maxLevel |-> 4, baseCost |-> 15, costFactor |-> 24],
    [id |-> "idleDrip", maxLevel |-> 6, baseCost |-> 20, costFactor |-> 21],
    [id |-> "cellReactivity", maxLevel |-> 4, baseCost |-> 30, costFactor |-> 27]>>
UpgradeIdx == DOMAIN upgrades

\* a cost no score reaches
Infinity == 2000000000

\* baseCost * costFactor ^ level
RECURSIVE costAt(_, _)
costAt(up, level) ==
  IF level = 0 THEN up.baseCost * LightScale
  ELSE (costAt(up, level - 1) * up.costFactor) \div 10

getUpgradeCost(g, u) ==
  IF g.level[u] >= upgrades[u].maxLevel THEN Infinity
  ELSE costAt(upgrades[u], g.level[u])

\* applyUpgrades: the settings are functions of the levels.
\* lightPerClickBase in tenths, idleLightRate in 1/LightScale per ms,
\* reactivity in 1/LightScale.
lightPerClickBase(g) == 10 + 5 * g.level[1]
idleLightRate(g) == 6 * (LightScale \div 10000) * g.level[3]
reactivity(g) == (6 + 3 * g.level[4]) * (LightScale \div 100)

\* a purchase made whether or not the score covers the cost
attemptUpgradePurchaseOnCredit(g, u) ==
  IF g.level[u] >= upgrades[u].maxLevel
    THEN [g EXCEPT !.log = <<[ev |-> "purchase", up |-> u, paid |-> 0]>>]
  ELSE LET cost == getUpgradeCost(g, u)
       IN [g EXCEPT !.lightScore = @ - cost, !.level[u] = @ + 1,
                    !.log = <<[ev |-> "purchase", up |-> u, paid |-> cost]>>]

\* The log keeps the upgrade and what was paid for it.
attemptUpgradePurchase(g, u) ==
  IF g.level[u] >= upgrades[u].maxLevel
    THEN [g EXCEPT !.log = <<[ev |-> "purchase", up |-> u, paid |-> 0]>>]
  ELSE LET cost == getUpgradeCost(g, u)
       IN IF g.lightScore >= cost
            THEN [g EXCEPT !.lightScore = @ - cost, !.level[u] = @ + 1,
                           !.log = <<[ev |-> "purchase", up |-> u,
                                      paid |-> cost]>>]
            ELSE [g EXCEPT !.log = <<[ev |-> "purchase", up |-> u, paid |-> 0]>>]

\* handleRippleClick, handleSeedClick, handleUpgradeClick: the light gained
\* by a click with `near` cells within the combo radius
clickLight(g, onCell, near) ==
  CASE g.currentTool = "ripple" ->
         lightPerClickBase(g) * (100 + 15 * near) * (LightScale \div 1000)
    [] g.currentTool = "seed" -> lightPerClickBase(g) * (LightScale \div 20)
    [] g.currentTool = "upgrade" ->
         IF onCell THEN lightPerClickBase(g) * ((8 * LightScale) \div 100) ELSE 0

gardenClick(g, onCell, near) ==
  [g EXCEPT !.lightScore = @ + clickLight(g, onCell, near),
            !.rippled = TRUE,
            !.log = <<>>]

\* draw: the idle light of the frame and the light of `hits` cells met by a
\* ripple of strength `strength`
gardenDraw(g, dtMs, hits, strength) ==
  [g EXCEPT !.lightScore = @ + idleLightRate(g) * dtMs
                             + hits * ((reactivity(g) * strength) \div 10),
            !.log = <<>>]

gardenSetup ==
  [lightScore |-> 0, level |-> [u \in UpgradeIdx |-> 0],
   currentTool |-> "ripple", rippled |-> FALSE,
   fine |-> 0, log |-> <<>>]

\* ------------------------------------------------------------ actions

\* the globals' initialisers and setup(), in a build of cols x rows tiles
Setup(cols, rows) ==
  /\ gridCols = cols
  /\ gridRows = rows
  /\ currentSeed \in Seeds
  /\ LET g == initRippleOrigin(buildTilesFromSeed(
                [cols |-> cols, rows |-> rows,
                 tiles |-> <<>>, tilesGen |-> 0, originTile |-> Null,
                 maxRippleDist |-> 0, ripplePos |-> 0,
                 rippleCycleLength |-> 0, audioApi |-> audioApi,
                 audioCtx |-> FALSE, log |-> <<>>], currentSeed))
     IN /\ tiles = g.tiles
        /\ tilesGen = g.tilesGen
        /\ originTile = g.originTile
        /\ maxRippleDist = g.maxRippleDist
        /\ ripplePos = g.ripplePos
        /\ rippleCycleLength = g.rippleCycleLength
  /\ paletteIndex = 0
  /\ scenes = [k \in 0 .. (MAX_SCENES - 1) |-> EmptyScene]
  /\ isPlaying = FALSE
  /\ bpm = DEFAULT_BPM
  /\ pointerDownTile = Null
  /\ audioCtx = FALSE
  /\ log = <<>>
  /\ counting = TRUE
  /\ cycles = 0
  /\ trigCount = NoCount
  /\ clock = NoClock
  /\ strokes = NoStrokes
  /\ inputs = 0
  /\ rowSweep = sweepSetup(currentSeed)
  /\ ringSeq = ringSetup(currentSeed)
  /\ garden = gardenSetup

\* the default build, in a browser that has Web Audio
Init == audioApi = TRUE /\ Setup(GRID_COLS, GRID_ROWS)

Input == inputs < MaxInputs /\ inputs' = inputs + 1

DrawIn(choices) ==
  \E dtMs \in choices :
    /\ Apply(draw(Globals, dtMs, isPlaying, bpm))
    /\ UNCHANGED <<currentSeed, paletteIndex, scenes, isPlaying, bpm,
                   pointerDownTile, inputs>>

Draw == DrawIn(DtChoices)

DrawCoarse == DrawIn(CoarseDt)

MousePressed ==
  \E cell \in PointerCells \cup {NoTile} :
    /\ Input
    /\ pointerDownTile' = findTileAt(Globals, cell)
    /\ Apply(ensureAudioRunning(Globals))
    /\ UNCHANGED <<currentSeed, paletteIndex, scenes, isPlaying, bpm>>

MouseReleased ==
  /\ Input
  /\ IF pointerDownTile = Null
       THEN /\ Apply([Globals EXCEPT !.log = <<[ev |-> "ignored"]>>])
            /\ pointerDownTile' = pointerDownTile
       ELSE \E cell \in PointerCells \cup {NoTile}, pressDuration \in PressChoices,
               alt \in BOOLEAN, shift \in BOOLEAN :
              \E pick \in IF alt THEN 1 .. 3 ELSE {1} :
                /\ Apply(mouseReleased(Globals, pointerDownTile, cell,
                                       pressDuration, alt, shift, pick))
                /\ pointerDownTile' = Null
  /\ UNCHANGED <<currentSeed, paletteIndex, scenes, isPlaying, bpm>>

KeySpace ==
  /\ Input
  /\ isPlaying' = ~isPlaying
  /\ Apply(ensureAudioRunning(Globals))
  /\ UNCHANGED <<currentSeed, paletteIndex, scenes, bpm, pointerDownTile>>

KeyComma ==
  /\ Input
  /\ bpm' = Max(BPM_MIN, bpm - BPM_STEP)
  /\ Apply(Globals)
  /\ UNCHANGED <<currentSeed, paletteIndex, scenes, isPlaying, pointerDownTile>>

KeyPeriod ==
  /\ Input
  /\ bpm' = Min(BPM_MAX, bpm + BPM_STEP)
  /\ Apply(Globals)
  /\ UNCHANGED <<currentSeed, paletteIndex, scenes, isPlaying, pointerDownTile>>

KeyStore ==
  \E index \in SceneSlots :
    /\ Input
    /\ scenes' = storeScene(scenes, index, Globals, paletteIndex, currentSeed)
    /\ Apply(Globals)
    /\ UNCHANGED <<currentSeed, paletteIndex, isPlaying, bpm, pointerDownTile>>

KeyRecall ==
  \E index \in SceneSlots :
    /\ Input
    /\ IF sceneUsable(scenes[index])
         THEN /\ paletteIndex' = scenes[index].paletteIndex % PALETTE_COUNT
              /\ Apply(recallScene(Globals, scenes[index]))
         ELSE paletteIndex' = paletteIndex /\ Apply(Globals)
    /\ UNCHANGED <<currentSeed, scenes, isPlaying, bpm, pointerDownTile>>

KeyN ==
  \E seed \in Seeds :
    /\ Input
    /\ tilesGen <= MaxReseeds
    /\ currentSeed' = seed
    /\ Apply(buildTilesFromSeed(Globals, seed))
    /\ UNCHANGED <<paletteIndex, scenes, isPlaying, bpm, pointerDownTile>>

KeyPalette ==
  \E k \in PaletteKeys :
    /\ Input
    /\ paletteIndex' = k
    /\ Apply(Globals)
    /\ UNCHANGED <<currentSeed, scenes, isPlaying, bpm, pointerDownTile>>

\* Playback: the transport keys and frames of every length.
Next ==
  \/ Draw
  \/ KeySpace
  \/ KeyComma
  \/ KeyPeriod

Spec == Init /\ [][Next]_vars

\* Interaction: the pointer, the scene keys, the reseed and the palette keys,
\* between frames of one length.
NextInteract ==
  \/ DrawCoarse
  \/ MousePressed
  \/ MouseReleased
  \/ KeySpace
  \/ KeyStore
  \/ KeyRecall
  \/ KeyN
  \/ KeyPalette

SpecInteract == Init /\ [][NextInteract]_vars

\* A frame whose deltaTime is kept, while the wave has played for less than
\* MaxClockMs since it restarted.
DrawTimedIn(choices) ==
  \E dtMs \in choices :
    /\ clock.ms < MaxClockMs
    /\ LET g == draw(Globals, dtMs, isPlaying, bpm)
       IN Commit(g) /\ clock' = Tick(g, dtMs)
    /\ UNCHANGED <<currentSeed, paletteIndex, scenes, isPlaying, bpm,
                   pointerDownTile, strokes, inputs>>

DrawAny == DrawTimedIn(DtChoices)

DrawTimed == DrawTimedIn(TimedDt)

\* Timed playback on the default build: timed frames, the play and tempo
\* keys and the reseed.
NextTimed ==
  \/ DrawTimed
  \/ KeySpace
  \/ KeyPeriod
  \/ KeyN

SpecTimed == Init /\ [][NextTimed]_vars

\* The default build in a browser without Web Audio: timed frames of two
\* lengths, the play key and the pointer.
InitMute == audioApi = FALSE /\ Setup(GRID_COLS, GRID_ROWS)

DrawMute == DrawTimedIn(MuteDt)

NextMute ==
  \/ DrawMute
  \/ KeySpace
  \/ MousePressed
  \/ MouseReleased

SpecMute == InitMute /\ [][NextMute]_vars

\* The voice dispatch alone.  A probe is a tile of given attributes at a
\* given cell and the intensity it is triggered with: first a tile as seeded,
\* clicked (amp 1.0), then probes that differ from the last in one respect.
ProbeTile(p) ==
  [tiles[p.cell] EXCEPT !.moduleType = p.moduleType,
                        !.stateCount = moduleStateCount(p.moduleType),
                        !.state = constrain(p.state, 0,
                                            moduleStateCount(p.moduleType) - 1),
                        !.colorIndex = p.colorIndex]

SeededProbes ==
  {[cell |-> c, moduleType |-> tiles[c].moduleType, state |-> tiles[c].state,
    colorIndex |-> tiles[c].colorIndex, amp |-> AmpScale] : c \in VoiceCells}

Neighbours(p) ==
  {[p EXCEPT !.cell = c] : c \in VoiceCells}
    \cup {[p EXCEPT !.amp = a] : a \in VoiceAmps}
    \cup {[p EXCEPT !.colorIndex = k] : k \in 0 .. 2}
    \cup {[p EXCEPT !.state = n] : n \in 0 .. (moduleStateCount(p.moduleType) - 1)}
    \cup {[p EXCEPT !.moduleType = MODULE_TYPES[t],
                    !.state = ProbeTile([p EXCEPT !.moduleType = MODULE_TYPES[t]]).state] :
            t \in 1 .. Len(MODULE_TYPES)}

Dispatch ==
  \E p \in IF log = <<>> THEN SeededProbes ELSE Neighbours(log[1].probe) :
    LET ready == ensureAudioRunning(Globals)
    IN /\ audioCtx' = ready.audioCtx
       /\ log' = <<[ev |-> "dispatch", probe |-> p,
                    grain |-> triggerGrainFromTile(p.cell, ProbeTile(p), p.amp,
                                                   ready.audioCtx)]>>
       /\ UNCHANGED <<gridCols, gridRows, tiles, tilesGen, currentSeed,
                      paletteIndex, scenes, isPlaying, bpm, originTile,
                      maxRippleDist, ripplePos, rippleCycleLength,
                      pointerDownTile, audioApi, counting, cycles, trigCount,
                      clock, strokes, inputs, variants>>

NextVoice == Dispatch

SpecVoice == Init /\ [][NextVoice]_vars

\* Clicks and shift+clicks alone: presses, and releases before the long
\* press threshold with the alt key up.
ClickPressed ==
  \E cell \in ClickCells :
    /\ pointerDownTile' = findTileAt(Globals, cell)
    /\ Apply(ensureAudioRunning(Globals))
    /\ UNCHANGED <<currentSeed, paletteIndex, scenes, isPlaying, bpm, inputs>>

ClickReleased ==
  /\ pointerDownTile # Null
  /\ \E cell \in ClickCells, shift \in BOOLEAN :
       \E pressDuration \in {d \in PressChoices : d < LONG_PRESS_MS} :
         LET hit == findTileAt(Globals, cell) = pointerDownTile
         IN /\ hit => tiles[cell].clickCount < MaxClicks
            /\ Commit(mouseReleased(Globals, pointerDownTile, cell,
                                    pressDuration, FALSE, shift, 1))
            /\ strokes' = IF hit THEN Stroke(cell, IF shift THEN -1 ELSE 1)
                          ELSE strokes
  /\ pointerDownTile' = Null
  /\ UNCHANGED <<currentSeed, paletteIndex, scenes, isPlaying, bpm, clock,
                 inputs>>

NextClick ==
  \/ ClickPressed
  \/ ClickReleased

SpecClick == Init /\ [][NextClick]_vars

\* Tempo: the transport keys pressed any number of times, around a bounded
\* number of frames.
TempoFrame ==
  \E dtMs \in CoarseDt :
    /\ inputs < MaxTempoFrames
    /\ inputs' = inputs + 1
    /\ Apply(draw(Globals, dtMs, isPlaying, bpm))
    /\ UNCHANGED <<currentSeed, paletteIndex, scenes, isPlaying, bpm,
                   pointerDownTile>>

TempoSpace ==
  /\ isPlaying' = ~isPlaying
  /\ Apply(ensureAudioRunning(Globals))
  /\ UNCHANGED <<currentSeed, paletteIndex, scenes, bpm, pointerDownTile,
                 inputs>>

\* ',' without the lower limit
TempoCommaUnclamped ==
  /\ bpm > 0
  /\ bpm' = bpm - BPM_STEP
  /\ Apply(Globals)
  /\ UNCHANGED <<currentSeed, paletteIndex, scenes, isPlaying, pointerDownTile,
                 inputs>>

TempoComma ==
  /\ bpm' = Max(BPM_MIN, bpm - BPM_STEP)
  /\ Apply(Globals)
  /\ UNCHANGED <<currentSeed, paletteIndex, scenes, isPlaying, pointerDownTile,
                 inputs>>

TempoPeriod ==
  /\ bpm' = Min(BPM_MAX, bpm + BPM_STEP)
  /\ Apply(Globals)
  /\ UNCHANGED <<currentSeed, paletteIndex, scenes, isPlaying, pointerDownTile,
                 inputs>>

NextTempo == TempoFrame \/ TempoSpace \/ TempoComma \/ TempoPeriod

SpecTempo == Init /\ [][NextTempo]_vars

\* Scenes: the scene keys pressed any number of times, around a bounded
\* number of edits (clicks, alt+clicks, palette keys, reseeds).
Edit == inputs < MaxEdits /\ inputs' = inputs + 1

ScenePressed ==
  \E cell \in SceneCells :
    /\ pointerDownTile = Null
    /\ pointerDownTile' = findTileAt(Globals, cell)
    /\ Apply(ensureAudioRunning(Globals))
    /\ UNCHANGED <<currentSeed, paletteIndex, scenes, isPlaying, bpm, inputs>>

SceneReleased ==
  /\ pointerDownTile # Null
  /\ Edit
  /\ \E cell \in SceneCells, alt \in BOOLEAN :
       \E pick \in IF alt THEN 1 .. 3 ELSE {1} :
         \E pressDuration \in {d \in PressChoices : d < LONG_PRESS_MS} :
           Apply(mouseReleased(Globals, pointerDownTile, cell, pressDuration,
                               alt, FALSE, pick))
  /\ pointerDownTile' = Null
  /\ UNCHANGED <<currentSeed, paletteIndex, scenes, isPlaying, bpm>>

SceneStore ==
  \E index \in SceneSlots :
    /\ scenes' = storeScene(scenes, index, Globals, paletteIndex, currentSeed)
    /\ Apply([Globals EXCEPT !.log = <<[ev |-> "store", index |-> index]>>])
    /\ UNCHANGED <<currentSeed, paletteIndex, isPlaying, bpm, pointerDownTile,
                   inputs>>

SceneRecall ==
  \E index \in SceneSlots :
    LET g == [Globals EXCEPT !.log = <<[ev |-> "recallKey", index |-> index]>>]
    IN /\ IF sceneUsable(scenes[index])
            THEN /\ paletteIndex' = scenes[index].paletteIndex % PALETTE_COUNT
                 /\ Apply(recallScene(g, scenes[index]))
            ELSE paletteIndex' = paletteIndex /\ Apply(g)
       /\ UNCHANGED <<currentSeed, scenes, isPlaying, bpm, pointerDownTile,
                      inputs>>

SceneN ==
  \E seed \in Seeds :
    /\ Edit
    /\ tilesGen <= MaxReseeds
    /\ currentSeed' = seed
    /\ Apply(buildTilesFromSeed(Globals, seed))
    /\ UNCHANGED <<paletteIndex, scenes, isPlaying, bpm, pointerDownTile>>

ScenePalette ==
  \E k \in PaletteKeys :
    /\ Edit
    /\ paletteIndex' = k
    /\ Apply(Globals)
    /\ UNCHANGED <<currentSeed, scenes, isPlaying, bpm, pointerDownTile>>

NextScene ==
  \/ ScenePressed
  \/ SceneReleased
  \/ SceneStore
  \/ SceneRecall
  \/ SceneN
  \/ ScenePalette

SpecScene == Init /\ [][NextScene]_vars

\* Row sweep: the frames, the play and speed keys and the clicks of the
\* row-sweep sketch.
SweepStep(s) ==
  /\ rowSweep.steps < MaxSweepSteps
  /\ rowSweep' = [s EXCEPT !.steps = @ + 1]
  /\ UNCHANGED <<sketchVars, ringSeq, garden>>

SweepDraw ==
  \E dtMs \in SweepDt :
    SweepStep(IF rowSweep.playMode THEN updateSweep(rowSweep, dtMs)
              ELSE [rowSweep EXCEPT !.log = <<>>])

SweepKeyP == SweepStep([rowSweep EXCEPT !.playMode = ~@, !.log = <<>>])

SweepKeyMinus ==
  SweepStep([rowSweep EXCEPT !.speed = Max(SWEEP_SPEED_MIN, @ - 1),
                             !.log = <<>>])

SweepKeyEquals ==
  SweepStep([rowSweep EXCEPT !.speed = Min(SWEEP_SPEED_MAX, @ + 1),
                             !.log = <<>>])

SweepMousePressed ==
  \E cell \in SweepCells, shift \in BOOLEAN :
    SweepStep([rowSweep EXCEPT
                 !.tiles[cell] =
                    sweepAdvanceTileState(@, IF shift THEN -1 ELSE 1),
                 !.log = <<>>])

NextSweep ==
  \/ SweepDraw
  \/ SweepKeyP
  \/ SweepKeyMinus
  \/ SweepKeyEquals
  \/ SweepMousePressed

SpecSweep == Init /\ [][NextSweep]_vars

\* Ring sequencer: the frames, the transport keys, the pointer and the
\* reseed of the ring-sequencer sketch.
RingStep(r) ==
  /\ ringSeq.steps < MaxRingSteps
  /\ ringSeq' = [r EXCEPT !.steps = @ + 1]
  /\ UNCHANGED <<sketchVars, rowSweep, garden>>

RingDraw == \E dtMs \in RingDt : RingStep(ringDraw(ringSeq, dtMs))

RingKeySpace == RingStep([ringSeq EXCEPT !.isPlaying = ~@, !.log = <<>>])

RingKeyComma ==
  LET b == Max(BPM_MIN, ringSeq.bpm - BPM_STEP)
  IN b \in RingTempos /\ RingStep([ringSeq EXCEPT !.bpm = b, !.log = <<>>])

RingKeyPeriod ==
  LET b == Min(BPM_MAX, ringSeq.bpm + BPM_STEP)
  IN b \in RingTempos /\ RingStep([ringSeq EXCEPT !.bpm = b, !.log = <<>>])

RingMousePressed ==
  \E cell \in RingCells \cup {NoTile} :
    RingStep([ringSeq EXCEPT
                !.pointerDownTile =
                   IF cell \in RingIdx THEN Ref(ringSeq.tilesGen, cell) ELSE Null,
                !.log = <<>>])

RingMouseReleased ==
  IF ringSeq.pointerDownTile = Null
    THEN RingStep([ringSeq EXCEPT !.log = <<>>])
    ELSE \E cell \in RingCells \cup {NoTile}, pressDuration \in PressChoices,
            alt \in BOOLEAN, shift \in BOOLEAN :
           \E pick \in IF alt THEN 1 .. 3 ELSE {1} :
             RingStep(ringMouseReleased(ringSeq, cell, pressDuration, alt,
                                        shift, pick))

RingKeyN ==
  \E seed \in Seeds :
    RingStep(ringBuildTilesFromSeed([ringSeq EXCEPT !.log = <<>>], seed))

NextRing ==
  \/ RingDraw
  \/ RingKeySpace
  \/ RingKeyComma
  \/ RingKeyPeriod
  \/ RingMousePressed
  \/ RingMouseReleased
  \/ RingKeyN

SpecRing == Init /\ [][NextRing]_vars

\* Glass garden: the clicks, the frames, the tool keys and the purchases of
\* the glass-garden sketch.  Light is gained while the score is below
\* MaxLight points; the gains that are not whole multiples of five points
\* (seed and upgrade clicks, ripple hits) are counted in `fine`.
GardenStep(g) == garden' = g /\ UNCHANGED <<sketchVars, rowSweep, ringSeq>>

Gaining == garden.lightScore < MaxLight * LightScale

GardenClick ==
  \E onCell \in BOOLEAN, near \in GardenNear :
    LET g == gardenClick(garden, onCell, near)
        coarse == garden.currentTool = "ripple"
    IN /\ Gaining
       /\ coarse \/ garden.fine < MaxFine
       /\ GardenStep(IF coarse THEN g ELSE [g EXCEPT !.fine = @ + 1])

GardenDraw ==
  \E dtMs \in GardenDt, hits \in GardenHits :
    LET g == gardenDraw(garden, dtMs, hits, 10)
    IN /\ Gaining
       /\ hits > 0 => (garden.rippled /\ garden.fine < MaxFine)
       /\ GardenStep(IF hits > 0 THEN [g EXCEPT !.fine = @ + 1] ELSE g)

GardenKeyTool ==
  \E tool \in {"ripple", "seed", "upgrade"} :
    GardenStep([garden EXCEPT !.currentTool = tool, !.log = <<>>])

\* handleUIClick on the rectangle of an upgrade, the overlay being open
GardenPurchase ==
  \E u \in GardenUps : GardenStep(attemptUpgradePurchase(garden, u))

NextGarden ==
  \/ GardenClick
  \/ GardenDraw
  \/ GardenKeyTool
  \/ GardenPurchase

\* the garden does not read the seed of the tile sketches
InitGarden == Init /\ currentSeed = 0

SpecGarden == InitGarden /\ [][NextGarden]_vars

\* Builds of fewer than two tiles: frames of every length, the play and
\* tempo keys, the pointer and the reseed.
InitDegenerate ==
  /\ audioApi = TRUE
  /\ \E grid \in DegenerateGrids : Setup(grid[1], grid[2])

NextDegenerate ==
  \/ DrawAny
  \/ KeySpace
  \/ KeyPeriod
  \/ MousePressed
  \/ MouseReleased
  \/ KeyN

SpecDegenerate == InitDegenerate /\ [][NextDegenerate]_vars

\* The detector alone: tile 0 is handed amplitudes, frame after frame; the
\* log keeps the last three.
AmpSamples == {0, 690, 700, 710, 1000}

LastThree(l) == IF Len(l) > 3 THEN SubSeq(l, Len(l) - 2, Len(l)) ELSE l

Detect ==
  \E amp \in AmpSamples :
    LET hit == detectTile(0, tiles[0], amp, audioCtx \/ audioApi)
    IN /\ tiles' = [tiles EXCEPT ![0] = hit.tile]
       /\ log' = LastThree(Append(log, [ev |-> "detect", amp |-> amp,
                                        fired |-> Len(hit.grains)]))
       /\ UNCHANGED <<gridCols, gridRows, tilesGen, currentSeed, paletteIndex,
                      scenes, isPlaying, bpm, originTile, maxRippleDist,
                      ripplePos, rippleCycleLength, pointerDownTile, audioApi,
                      audioCtx, counting, cycles, trigCount, clock, strokes,
                      inputs, variants>>

NextDetect == Detect

SpecDetect == Init /\ [][NextDetect]_vars

\* ------------------------------------------------------------ claims

IdxOf(l, e) == CHOOSE k \in 1 .. Len(l) : l[k].ev = e
RippleFrame(l) == HasEv(l, "ripple")
GrainsOf(l, i) ==
  LET gr == EvOf(l, "ripple").grains
  IN {gr[k] : k \in {n \in 1 .. Len(gr) : gr[n].tile = i}}

\* C1: after every playing frame 0 <= ripplePos < rippleCycleLength, also
\* when the advanced position lands exactly on rippleCycleLength.
WrapInRange ==
  HasEv(log, "advance") => 0 <= ripplePos /\ ripplePos < rippleCycleLength

\* C2: in a playing frame a tile fires exactly when its prevAmp was below
\* the threshold and its new amplitude is at or above it, at most once
\* whatever dt is, and the grain carries the new amplitude (>= threshold).
TriggerOnUpwardCrossing ==
  [][RippleFrame(log') =>
       \A i \in TileIdx :
         /\ Fired(log', i) <= 1
         /\ Fired(log', i) = 1 <=> (tiles[i].prevAmp < triggerThreshold
                                     /\ tiles'[i].currentAmp >= triggerThreshold)
         /\ \A gr \in GrainsOf(log', i) :
              gr.amp = tiles'[i].currentAmp /\ gr.amp >= triggerThreshold]_vars

TriggerOnUpwardCrossingWitness ==
  /\ RippleFrame(log)
  /\ EvOf(log, "advance").raw >= 2 * rippleCycleLength
  /\ \E i \in TileIdx : Fired(log, i) = 1

\* C3: while the wave steps finely, every wrap of ripplePos closes a cycle
\* in which each tile fired exactly once: the triggers of the frames before
\* the wrapping frame's own samples number the cycles completed.
Wrapped(l) == HasEv(l, "advance") /\ EvOf(l, "advance").raw # EvOf(l, "advance").pos

OneTriggerPerCycle ==
  (counting /\ Wrapped(log)) =>
     \A i \in TileIdx : trigCount[i] - Fired(log, i) = cycles

OneTriggerPerCycleWitness ==
  /\ counting
  /\ Wrapped(log)
  /\ cycles = 2
  /\ \A i \in TileIdx : trigCount[i] >= 2

\* C4: every tile's dist is the Euclidean distance between its cell and the
\* origin's, maxRippleDist is the largest of them and rippleCycleLength is
\* maxRippleDist + 2.0, in every state a frame can start from.
IsDistance(d, i, o) ==
  LET dx == ColOf(i) - ColOf(o)
      dy == RowOf(i) - RowOf(o)
      sq == (dx * dx + dy * dy) * Scale * Scale
  IN 0 <= d /\ d * d <= sq /\ sq < (d + 1) * (d + 1)

DistanceFieldCurrent ==
  /\ originTile # Null
  /\ \A i \in TileIdx : IsDistance(tiles[i].dist, i, originTile[2])
  /\ \A i \in TileIdx : tiles[i].dist <= maxRippleDist
  /\ \E i \in TileIdx : tiles[i].dist = maxRippleDist
  /\ rippleCycleLength = maxRippleDist + 2 * Scale

DistanceFieldCurrentWitness ==
  /\ originTile[2] # (GRID_ROWS \div 2) * GRID_COLS + GRID_COLS \div 2
  /\ RippleFrame(log)
  /\ ripplePos > 0

\* C5: a frame drawn while isPlaying is false leaves ripplePos and every
\* prevAmp and currentAmp as they were and fires nothing; the play key
\* leaves them as they were too, so that playing resumes where it stopped.
SameWave ==
  /\ ripplePos' = ripplePos
  /\ \A i \in TileIdx : /\ tiles'[i].prevAmp = tiles[i].prevAmp
                        /\ tiles'[i].currentAmp = tiles[i].currentAmp

PausedFrameFreezes ==
  [][/\ (~isPlaying /\ HasEv(log', "frame")) => (SameWave /\ ~RippleFrame(log'))
     /\ (isPlaying' # isPlaying) => SameWave]_vars

PausedFrameFreezesWitness ==
  /\ ~isPlaying
  /\ HasEv(log, "frame")
  /\ ripplePos > 0
  /\ \E i \in TileIdx : tiles[i].currentAmp >= triggerThreshold

\* C6: in a playing frame the position is advanced and wrapped before the
\* tile loop, every pass of the loop samples against that one position,
\* which is still ripplePos after the loop, and the loop is over before
\* any tile is rendered.
FrameOrder ==
  RippleFrame(log) =>
    /\ HasEv(log, "advance") /\ HasEv(log, "render")
    /\ IdxOf(log, "advance") < IdxOf(log, "ripple")
    /\ IdxOf(log, "ripple") < IdxOf(log, "render")
    /\ EvOf(log, "ripple").seen = {EvOf(log, "advance").pos}
    /\ ripplePos = EvOf(log, "advance").pos

FrameOrderWitness ==
  /\ RippleFrame(log)
  /\ EvOf(log, "frame").pos # ripplePos
  /\ EvOf(log, "advance").raw > rippleCycleLength
  /\ Len(EvOf(log, "ripple").grains) > 1

\* C7 as claimed: the amplitude of every tile in a playing frame is the bump
\* at the position ripplePos had before the frame's advance.
SampledAtPreUpdatePos ==
  RippleFrame(log) =>
    \A i \in TileIdx :
      tiles[i].currentAmp = Gauss(Abs(tiles[i].dist - EvOf(log, "frame").pos))

\* C7 as amended: the amplitude of every tile in a playing frame is the bump
\* at the position ripplePos has after the frame's advance and wrap.
SampledAtAdvancedPos ==
  RippleFrame(log) =>
    \A i \in TileIdx :
      tiles[i].currentAmp = Gauss(Abs(tiles[i].dist - ripplePos))

SampledAtAdvancedPosWitness ==
  /\ RippleFrame(log)
  /\ EvOf(log, "frame").pos # ripplePos
  /\ \E i \in TileIdx :
       /\ tiles[i].dist < ripplePos
       /\ tiles[i].currentAmp # Gauss(Abs(tiles[i].dist - EvOf(log, "frame").pos))

\* C8: between frames every tile has prevAmp = currentAmp, both in [0, 1]
\* (0 after the distance field is recomputed).
AmpsAgreeBetweenFrames ==
  /\ \A i \in TileIdx :
       /\ tiles[i].prevAmp = tiles[i].currentAmp
       /\ 0 <= tiles[i].currentAmp /\ tiles[i].currentAmp <= AmpScale
  /\ HasEv(log, "reset") => \A i \in TileIdx : tiles[i].currentAmp = 0

AmpsAgreeBetweenFramesWitness ==
  /\ RippleFrame(log)
  /\ tilesGen > 1
  /\ \E i \in TileIdx : Fired(log, i) = 1 /\ tiles[i].prevAmp >= triggerThreshold

\* C9 as claimed: amplitudes 0.69, 0.70, 0.71 in three consecutive frames
\* trigger once, at the 0.70 -> 0.71 step.
ThreeFrames ==
  /\ Len(log) = 3
  /\ \A k \in 1 .. 3 : log[k].ev = "detect"
  /\ <<log[1].amp, log[2].amp, log[3].amp>> = <<690, 700, 710>>

TriggersAtSecondStep ==
  ThreeFrames => <<log[1].fired, log[2].fired, log[3].fired>> = <<0, 0, 1>>

\* C9 as amended: amplitudes 0.69, 0.70, 0.71 in three consecutive frames
\* trigger once, at the 0.69 -> 0.70 step, the frame whose amplitude is the
\* first at or above 0.7.
TriggersAtFirstStep ==
  ThreeFrames => <<log[1].fired, log[2].fired, log[3].fired>> = <<0, 1, 0>>

TriggersAtFirstStepWitness == ThreeFrames /\ tiles[0].prevAmp = 710

\* C10: originTile is never null and always a tile of the current array;
\* the origin is reassigned only to the tile that was pressed and found
\* under the pointer again, so never to a tile pressed before a reseed.
OriginInTiles ==
  /\ originTile # Null
  /\ originTile[1] = tilesGen
  /\ originTile[2] \in TileIdx
  /\ (HasEv(log, "release") /\ HasEv(log, "reset")) =>
       /\ EvOf(log, "release").tile = originTile
       /\ EvOf(log, "release").down = originTile

OriginInTilesWitness ==
  /\ HasEv(log, "release")
  /\ EvOf(log, "release").down[1] # tilesGen
  /\ EvOf(log, "release").down[2] = EvOf(log, "release").tile[2]
  /\ EvOf(log, "release").down[2] # originTile[2]
  /\ EvOf(log, "release").pressDuration >= LONG_PRESS_MS

\* C11: in every state any two tiles at the same distance from the origin
\* have the same currentAmp and the same prevAmp, and the wave triggers
\* both or neither in a frame.
EquidistantAlike ==
  \A i \in TileIdx : \A j \in TileIdx :
    tiles[i].dist = tiles[j].dist =>
      /\ tiles[i].currentAmp = tiles[j].currentAmp
      /\ tiles[i].prevAmp = tiles[j].prevAmp
      /\ Fired(log, i) = Fired(log, j)

EquidistantAlikeWitness ==
  /\ RippleFrame(log)
  /\ originTile[2] # (GRID_ROWS \div 2) * GRID_COLS + GRID_COLS \div 2
  /\ \E i \in TileIdx : \E j \in TileIdx :
       /\ i # j
       /\ tiles[i].dist = tiles[j].dist
       /\ Fired(log, i) = 1 /\ Fired(log, j) = 1

\* C12: on a grid of one cell (maxRippleDist = 0) every frame, playing or
\* not and whatever its dt, runs to its rendering, returns from updateRipple
\* before the oscillator's arithmetic (so nothing is divided, by zero or
\* otherwise), and leaves the cell's currentAmp and prevAmp in [0, 1] and
\* ripplePos a number within the cycle.
OneCellFrames ==
  (gridCols = 1 /\ gridRows = 1) =>
    /\ maxRippleDist = 0
    /\ 0 <= ripplePos /\ ripplePos <= rippleCycleLength
    /\ \A i \in TileIdx :
         /\ 0 <= tiles[i].currentAmp /\ tiles[i].currentAmp <= AmpScale
         /\ 0 <= tiles[i].prevAmp /\ tiles[i].prevAmp <= AmpScale
    /\ HasEv(log, "frame") => HasEv(log, "render") /\ ~HasEv(log, "advance")

OneCellFramesWitness ==
  /\ gridCols = 1 /\ gridRows = 1
  /\ isPlaying
  /\ HasEv(log, "frame")
  /\ clock.dt = 5000
  /\ bpm > DEFAULT_BPM

\* C13 as claimed: on a grid of fewer than two cells, or without an origin,
\* maxRippleDist is at a positive floor, never 0, and rippleCycleLength is
\* positive.
DegenerateRadiusFloored ==
  (TileCount < 2 \/ originTile = Null) =>
    maxRippleDist > 0 /\ rippleCycleLength > 0

\* C13 as amended: on a grid of one cell maxRippleDist is 0, not floored,
\* and rippleCycleLength is the margin alone, 2.0; without an origin (no
\* cell) the computation returns at once and both stay 0.  Either way no
\* frame advances the wave.
DegenerateRadiusZero ==
  (TileCount < 2 \/ originTile = Null) =>
    /\ maxRippleDist = 0
    /\ originTile # Null => rippleCycleLength = 2 * Scale
    /\ originTile = Null => TileCount = 0 /\ rippleCycleLength = 0
    /\ ~HasEv(log, "advance")

DegenerateRadiusZeroWitness ==
  /\ TileCount = 1
  /\ HasEv(log, "release")
  /\ HasEv(log, "reset")
  /\ isPlaying

\* C14: a playing frame adds (bpm / 60) * rippleSpeed * (maxRippleDist / 2)
\* * dt to ripplePos before the wrap.  On the default grid the origin is the
\* tile at (4, 3) and maxRippleDist is 5, so that at bpm 96 the wave moves
\* 4.0 units a second: 0.5 s after a restart ripplePos is 2.0 and the tiles
\* at distance 2, (6, 3) and (4, 5) among them, are at peak amplitude and
\* have triggered.
TileAt(col, row) == row * GRID_COLS + col

RadialSpeed ==
  /\ originTile[2] = TileAt(4, 3)
  /\ maxRippleDist = 5 * Scale
  /\ HasEv(log, "advance") =>
       LET inc == EvOf(log, "advance").raw - EvOf(log, "frame").pos
           \* bpm * rippleSpeed * maxRippleDist * dt, over 60 * 2 * 1000
           num == bpm * rippleSpeed * maxRippleDist * clock.dt
       IN 120000 * inc <= num /\ num < 120000 * (inc + 1)
  /\ (clock.steady /\ clock.ms <= 500) =>
       1000 * ripplePos = 4 * Scale * clock.ms
  /\ (clock.steady /\ clock.ms = 500) =>
       /\ ripplePos = 2 * Scale
       /\ \A i \in TileIdx :
            tiles[i].dist = 2 * Scale =>
              tiles[i].currentAmp = AmpScale /\ i \in clock.fired
       /\ tiles[TileAt(6, 3)].dist = 2 * Scale
       /\ tiles[TileAt(4, 5)].dist = 2 * Scale

RadialSpeedWitness ==
  /\ clock.steady
  /\ clock.ms = 500
  /\ clock.dt = 50
  /\ tilesGen > 1
  /\ TileAt(6, 3) \in clock.fired

\* C15: where the browser has no Web Audio, audioCtx stays null and every
\* frame runs to its rendering and leaves ripplePos, every tile (its prevAmp
\* and currentAmp, its animation) and the set of tiles triggered exactly as
\* the same frame does from the same state with an audio context.
WithAudio(g) == [g EXCEPT !.audioApi = TRUE, !.audioCtx = TRUE]

Triggered(l) == {i \in TileIdx : Fired(l, i) > 0}

Sounding(l) ==
  HasEv(l, "ripple") /\
    \E k \in 1 .. Len(EvOf(l, "ripple").grains) :
      EvOf(l, "ripple").grains[k].voices # <<>>

SilentFramesAlike ==
  [][/\ audioCtx' = FALSE
     /\ HasEv(log', "frame") =>
          LET heard == draw(WithAudio(Globals), clock'.dt, isPlaying, bpm)
          IN /\ HasEv(log', "render")
             /\ ripplePos' = heard.ripplePos
             /\ tiles' = heard.tiles
             /\ Triggered(log') = Triggered(heard.log)
             /\ Triggered(heard.log) # {} => Sounding(heard.log)
             /\ ~Sounding(log')]_vars

SilentFramesAlikeWitness ==
  /\ ~audioApi /\ ~audioCtx
  /\ RippleFrame(log)
  /\ originTile[2] # TileAt(4, 3)
  /\ \E i \in TileIdx : Fired(log, i) = 1 /\ tiles[i].animActive

\* C16: a click, a shift+click, an alt+click and a scene recall leave the
\* wave field as it was: originTile, maxRippleDist, rippleCycleLength,
\* ripplePos and every tile's dist, prevAmp and currentAmp.
ShortClick(l) == HasEv(l, "release") /\ HasEv(l, "grain")

WaveFieldKept ==
  /\ originTile' = originTile
  /\ maxRippleDist' = maxRippleDist
  /\ rippleCycleLength' = rippleCycleLength
  /\ ripplePos' = ripplePos
  /\ \A i \in TileIdx : /\ tiles'[i].dist = tiles[i].dist
                        /\ tiles'[i].prevAmp = tiles[i].prevAmp
                        /\ tiles'[i].currentAmp = tiles[i].currentAmp

EditsKeepWaveField ==
  [][(ShortClick(log') \/ HasEv(log', "recall")) => WaveFieldKept]_vars

\* C17: in every state every tile's stateCount is that of its moduleType
\* (6 for circle, 5 for bar, block and diagonal) and its state is in
\* 0 .. stateCount - 1.
StateInRange ==
  \A i \in TileIdx :
    /\ tiles[i].moduleType \in {"circle", "bar", "block", "diagonal"}
    /\ tiles[i].stateCount = moduleStateCount(tiles[i].moduleType)
    /\ tiles[i].stateCount = IF tiles[i].moduleType = "circle" THEN 6 ELSE 5
    /\ 0 <= tiles[i].state /\ tiles[i].state < tiles[i].stateCount

\* a circle in its last state, 5, made a module of five states by alt+click
StateInRangeWitness ==
  /\ HasEv(log, "release") /\ HasEv(log, "grain")
  /\ \E i \in TileIdx :
       /\ moduleTypeForCol(ColOf(i), GRID_COLS) = "circle"
       /\ tiles[i].moduleType # "circle"
       /\ tiles[i].clickCount = 1
       /\ tiles[i].state = 4

\* the probe dispatched last, the voice it played, and the voice another
\* probe plays
Dispatched == log # <<>> /\ log[1].ev = "dispatch"
Probe == log[1].probe
Played == log[1].grain.voices[1]
Voice(p) == triggerGrainFromTile(p.cell, ProbeTile(p), p.amp, TRUE).voices[1]
HigherStates(p) == {n \in 0 .. (moduleStateCount(p.moduleType) - 1) : n >= p.state}
HigherAmps(p) == {a \in VoiceAmps : a >= p.amp}

\* C18 as claimed: in each of the four families the duration of the voice
\* does not decrease when the tile's normalized state is raised, nor when
\* the intensity is raised.
DurationNeverShortens ==
  Dispatched =>
    /\ \A n \in HigherStates(Probe) :
         Voice([Probe EXCEPT !.state = n]).duration >= Played.duration
    /\ \A a \in HigherAmps(Probe) :
         Voice([Probe EXCEPT !.amp = a]).duration >= Played.duration

\* C18 as amended: in the bell, chord and metallic families the duration
\* does not decrease when the normalized state or the intensity is raised;
\* in the woodblock family it does not decrease with the intensity and does
\* not increase with the state: a higher state is a shorter voice, 0.14 s
\* in state 0 down to 0.04 s in the last state.
DurationByFamily ==
  Dispatched =>
    /\ \A a \in HigherAmps(Probe) :
         Voice([Probe EXCEPT !.amp = a]).duration >= Played.duration
    /\ Played.family # "woodblock" =>
         \A n \in HigherStates(Probe) :
           Voice([Probe EXCEPT !.state = n]).duration >= Played.duration
    /\ Played.family = "woodblock" =>
         /\ \A n \in HigherStates(Probe) :
              /\ Voice([Probe EXCEPT !.state = n]).duration <= Played.duration
              /\ n > Probe.state =>
                   Voice([Probe EXCEPT !.state = n]).duration < Played.duration
         /\ Probe.state = 0 => Played.duration = 140000
         /\ Probe.state = moduleStateCount(Probe.moduleType) - 1 =>
              Played.duration = 40000

DurationByFamilyWitness ==
  /\ Dispatched
  /\ Played.family = "woodblock"
  /\ Probe.state = 2
  /\ Probe.amp = 700
  /\ Played.duration < 140000

\* C19: in every family, at equal intensity and state, an accent tile
\* (colorIndex 2) gets a greater gain than a primary one (colorIndex 0),
\* which gets a greater gain than a secondary one (colorIndex 1); and the
\* gain of a tile grows strictly with the intensity.
GainByColour ==
  Dispatched =>
    /\ Voice([Probe EXCEPT !.colorIndex = 2]).gain
         > Voice([Probe EXCEPT !.colorIndex = 0]).gain
    /\ Voice([Probe EXCEPT !.colorIndex = 0]).gain
         > Voice([Probe EXCEPT !.colorIndex = 1]).gain
    /\ Played.gain = Voice(Probe).gain /\ Played.gain > 0
    /\ \A a \in VoiceAmps :
         a > Probe.amp => Voice([Probe EXCEPT !.amp = a]).gain > Played.gain

GainByColourWitness ==
  /\ Dispatched
  /\ Played.family = "chord"
  /\ Probe.colorIndex = 1
  /\ Probe.amp = 850
  /\ Probe.state > 0

\* the pan of the voice played is the floor of lo + (hi - lo) * col /
\* (GRID_COLS - 1), in 1/1000, and a tile further right is panned further
\* right
PanOnto(lo, hi) ==
  LET col == ColOf(Probe.cell)
      span == GRID_COLS - 1
  IN /\ span * (Played.pan - lo) <= (hi - lo) * col
     /\ (hi - lo) * col < span * (Played.pan - lo) + span
     /\ col = 0 => Played.pan = lo
     /\ col = span => Played.pan = hi
     /\ \A c \in VoiceCells :
          ColOf(c) > col => Voice([Probe EXCEPT !.cell = c]).pan > Played.pan

\* C20 as claimed: the pan of a tile is its column mapped linearly onto
\* [-1, 1]: -1 in column 0, +1 in column GRID_COLS - 1, strictly increasing
\* in between.
PanFullField == Dispatched => PanOnto(-1000, 1000)

\* C20 as amended: the pan of a tile is its column mapped linearly onto
\* [-0.8, 0.8]: -0.8 in column 0, +0.8 in column GRID_COLS - 1, strictly
\* increasing in between.
PanNarrowField == Dispatched => PanOnto(-800, 800)

PanNarrowFieldWitness ==
  /\ Dispatched
  /\ Probe.cell = GRID_COLS * GRID_ROWS - 1
  /\ Probe.moduleType = "diagonal"
  /\ Probe.amp < AmpScale

\* C21: a click moves the tile's state one up and a shift+click one down,
\* modulo stateCount; each adds exactly 1 to the tile's clickCount, leaves
\* its module type, stateCount and colour alone and changes no other tile.
\* So a click undone by a shift+click (or the reverse) restores the state,
\* and so do stateCount clicks in a row: the state is the seeded one moved
\* by the clicks less the shift+clicks, modulo stateCount.
Seeded(i) == SeededTiles[<<gridCols, gridRows>>, currentSeed][i]

ClickAlgebra ==
  [][strokes' # strokes =>
       LET i == strokes'.last.tile
           n == tiles[i].stateCount
           net == strokes'.fwd[i] - strokes'.back[i]
       IN /\ tiles'[i].state = (tiles[i].state + strokes'.last.direction) % n
          /\ tiles'[i].clickCount = tiles[i].clickCount + 1
          /\ tiles'[i].moduleType = tiles[i].moduleType
          /\ tiles'[i].stateCount = n
          /\ tiles'[i].colorIndex = tiles[i].colorIndex
          /\ \A j \in TileIdx \ {i} : tiles'[j] = tiles[j]
          /\ (strokes.last.tile = i
                /\ strokes.last.direction = -strokes'.last.direction) =>
               tiles'[i].state = strokes.last.before
          /\ tiles'[i].state = (Seeded(i).state + net) % n
          /\ net \in {-n, 0, n} => tiles'[i].state = Seeded(i).state]_vars

\* stateCount clicks made on a circle, the last of them from its last state
ClickAlgebraWitness ==
  /\ \E i \in TileIdx :
       /\ strokes.fwd[i] = tiles[i].stateCount
       /\ strokes.back[i] = 0
       /\ tiles[i].stateCount = 6
       /\ strokes.last = [tile |-> i, direction |-> 1,
                          before |-> (tiles[i].state + 5) % 6]
  /\ \E j \in TileIdx : strokes.fwd[j] = 1 /\ strokes.back[j] = 1

\* C22: an alt+click gives the tile one of the three module types it does
\* not have, the stateCount of that type and its old state clamped into
\* 0 .. stateCount - 1, and leaves its colorIndex as it was.
AltClick(l) == HasEv(l, "keys") /\ EvOf(l, "keys").alt

AltClickRetypes ==
  [][AltClick(log') =>
       LET i == EvOf(log', "release").tile[2]
           old == tiles[i]
           new == tiles'[i]
       IN /\ new.moduleType \in {"circle", "bar", "block", "diagonal"}
          /\ new.moduleType # old.moduleType
          /\ new.stateCount = moduleStateCount(new.moduleType)
          /\ new.state = IF old.state > new.stateCount - 1
                           THEN new.stateCount - 1 ELSE old.state
          /\ 0 <= new.state
          /\ new.colorIndex = old.colorIndex]_vars

AltClickRetypesWitness ==
  /\ AltClick(log)
  /\ LET i == EvOf(log, "release").tile[2]
     IN /\ moduleTypeForCol(ColOf(i), GRID_COLS) = "circle"
        /\ tiles[i].moduleType = "diagonal"
        /\ tiles[i].state = 4
        /\ Seeded(i).state = 5
        /\ tiles[i].colorIndex = Seeded(i).colorIndex

\* C23: a release over the tile that was pressed makes it the origin when
\* the press lasted 400 ms or more, leaving its state, module type and
\* clickCount alone and requesting no grain; when the press was shorter it
\* changes the tile's state or module type, requests one grain of
\* intensity 1.0 and leaves the origin alone.  Any other release (over
\* another tile, off the grid, after a press off the grid) changes neither
\* the origin nor any tile.  pointerDownTile is null after every release.
GrainCount(l) == Cardinality({k \in 1 .. Len(l) : l[k].ev = "grain"})

ReleaseBranches ==
  [][/\ HasEv(log', "ignored") =>
          /\ pointerDownTile' = Null
          /\ originTile' = originTile /\ tiles' = tiles
     /\ HasEv(log', "release") =>
          LET rel == EvOf(log', "release")
              same == rel.tile # Null /\ rel.tile = rel.down
              i == rel.tile[2]
          IN /\ pointerDownTile' = Null
             /\ rel.down = pointerDownTile
             /\ (same /\ rel.pressDuration >= 400) =>
                  /\ originTile' = rel.tile
                  /\ tiles'[i].state = tiles[i].state
                  /\ tiles'[i].moduleType = tiles[i].moduleType
                  /\ tiles'[i].clickCount = tiles[i].clickCount
                  /\ GrainCount(log') = 0
             /\ (same /\ rel.pressDuration < 400) =>
                  /\ \/ tiles'[i].state # tiles[i].state
                     \/ tiles'[i].moduleType # tiles[i].moduleType
                  /\ GrainCount(log') = 1
                  /\ EvOf(log', "grain").tile = i
                  /\ EvOf(log', "grain").amp = AmpScale
                  /\ originTile' = originTile
             /\ ~same => (originTile' = originTile /\ tiles' = tiles
                           /\ GrainCount(log') = 0)]_vars

\* a press of exactly 400 ms on a tile that was not the origin
ReleaseBranchesWitness ==
  /\ HasEv(log, "release")
  /\ EvOf(log, "release").pressDuration = LONG_PRESS_MS
  /\ EvOf(log, "release").tile = EvOf(log, "release").down
  /\ originTile = EvOf(log, "release").tile
  /\ originTile[2] = TileAt(6, 3)
  /\ pointerDownTile = Null
  /\ isPlaying

\* C24: however often ',' and '.' are pressed, bpm stays within 20 .. 240;
\* each press moves it by at most 5, stopping at the limit.  Space toggles
\* isPlaying and changes neither bpm nor ripplePos nor any tile.
TempoKeys ==
  /\ [](bpm >= 20 /\ bpm <= 240)
  /\ [][/\ bpm' - bpm \in -5 .. 5
        /\ bpm' < bpm => bpm' = Max(20, bpm - 5)
        /\ bpm' > bpm => bpm' = Min(240, bpm + 5)
        /\ isPlaying' # isPlaying =>
             (bpm' = bpm /\ ripplePos' = ripplePos /\ tiles' = tiles)]_vars

\* paused in mid-wave, at the lower limit reached from 21
TempoKeysWitness ==
  /\ bpm = BPM_MIN
  /\ ~isPlaying
  /\ ripplePos > 0
  /\ audioCtx

\* C25: a recall gives every tile the moduleType, state and colorIndex, and
\* the program the paletteIndex, that the slot's last store saw, whatever
\* clicks, alt+clicks, palette keys and reseeds came in between: a store
\* copies them, nothing but a store of slot i changes slot i, and a recall
\* copies them back.  Recalling an empty slot changes nothing.
Look(t) == [moduleType |-> t.moduleType, state |-> t.state,
            colorIndex |-> t.colorIndex]

SceneRoundTrip ==
  [][/\ \A k \in 0 .. (MAX_SCENES - 1) :
          scenes'[k] # scenes[k] =>
            /\ HasEv(log', "store") /\ EvOf(log', "store").index = k
     /\ HasEv(log', "store") =>
          LET k == EvOf(log', "store").index
          IN /\ scenes'[k].stored
             /\ scenes'[k].paletteIndex = paletteIndex
             /\ \A i \in TileIdx : scenes'[k].tiles[i] = Look(tiles[i])
             /\ tiles' = tiles /\ paletteIndex' = paletteIndex
     /\ HasEv(log', "recallKey") =>
          LET k == EvOf(log', "recallKey").index
          IN IF scenes[k].stored
               THEN /\ paletteIndex' = scenes[k].paletteIndex
                    /\ \A i \in TileIdx : Look(tiles'[i]) = scenes[k].tiles[i]
               ELSE /\ paletteIndex' = paletteIndex /\ tiles' = tiles
                    /\ originTile' = originTile /\ ripplePos' = ripplePos]_vars

\* slot 3 stored, then a click and a palette key, then slot 3 recalled
SceneRoundTripWitness ==
  /\ HasEv(log, "recall")
  /\ EvOf(log, "recallKey").index = 3
  /\ ~scenes[0].stored
  /\ inputs = 2
  /\ tilesGen = 1
  /\ tiles[28].clickCount = 1
  /\ Look(tiles[28]) = Look(Seeded(28))
  /\ scenes[3].paletteIndex = 0
  /\ paletteIndex = 0

\* C26: a frame may carry ripplePos from below a tile's band (the distances
\* at which its amplitude is 0.7 or more) to above it.  The tile then has an
\* amplitude below 0.7 before and after the frame and is not triggered; with
\* the frame time of SpecInteract there is such a frame.
InBand(tile, pos) == Gauss(Abs(tile.dist - pos)) >= triggerThreshold

PassedOver(i, before, after) ==
  /\ before < tiles[i].dist /\ ~InBand(tiles[i], before)
  /\ after > tiles[i].dist /\ ~InBand(tiles[i], after)

CoarseStepSkips ==
  [][\A i \in TileIdx :
       (/\ HasEv(log', "advance") /\ ~Wrapped(log')
        /\ PassedOver(i, ripplePos, ripplePos')) =>
          /\ tiles[i].prevAmp < triggerThreshold
          /\ tiles'[i].currentAmp < triggerThreshold
          /\ tiles'[i].dist = tiles[i].dist
          /\ Fired(log', i) = 0]_vars

\* the second frame of a wave: the tile was sampled on both sides of its band
CoarseStepSkipsWitness ==
  /\ HasEv(log, "advance") /\ ~Wrapped(log)
  /\ EvOf(log, "frame").pos > 0
  /\ \E i \in TileIdx :
       /\ PassedOver(i, EvOf(log, "frame").pos, ripplePos)
       /\ tiles[i].currentAmp < triggerThreshold
       /\ Fired(log, i) = 0

\* C27: a long-press origin change, a scene recall and a reseed each
\* recompute the distance field, and every recomputation restarts the wave:
\* ripplePos = 0 and every tile's prevAmp and currentAmp are 0.  A reseed
\* also puts the origin back on the centre tile (4, 3).  None of the three
\* changes isPlaying, bpm or the stored scenes.
LongPress(l) ==
  /\ HasEv(l, "release")
  /\ EvOf(l, "release").tile # Null
  /\ EvOf(l, "release").tile = EvOf(l, "release").down
  /\ EvOf(l, "release").pressDuration >= LONG_PRESS_MS

RecomputeRestarts ==
  [][/\ (LongPress(log') \/ HasEv(log', "recall") \/ tilesGen' # tilesGen)
          => HasEv(log', "reset")
     /\ HasEv(log', "reset") =>
          /\ ripplePos' = 0
          /\ \A i \in TileIdx :
               tiles'[i].prevAmp = 0 /\ tiles'[i].currentAmp = 0
          /\ isPlaying' = isPlaying /\ bpm' = bpm /\ scenes' = scenes
     /\ tilesGen' # tilesGen => originTile' = Ref(tilesGen', TileAt(4, 3))]_vars

\* a reseed while the wave is playing
RecomputeRestartsWitness ==
  /\ HasEv(log, "reset")
  /\ tilesGen = 2
  /\ isPlaying
  /\ ripplePos = 0
  /\ originTile[2] = TileAt(4, 3)
  /\ inputs = 2

\* C28: in the row-sweep sketch 0 <= sweep.pos < GRID_ROWS after every
\* updateSweep(dt), for every dt >= 0, also when dt * sweep.speed exceeds
\* GRID_ROWS; and one call advances each tile at most once.
SweepInRange ==
  /\ 0 <= rowSweep.pos /\ rowSweep.pos < SweepRows
  /\ \A i \in DOMAIN rowSweep.tiles :
       Cardinality({k \in 1 .. Len(rowSweep.log) : rowSweep.log[k] = i}) <= 1

\* C29: in the ring-sequencer sketch a playing frame takes one ring step for
\* every secondsPerRing that has elapsed, several in one frame when dt is
\* large: step k moves rippleIndex to the next ring modulo maxRippleRing + 1
\* and triggers exactly the tiles at that Manhattan distance from the
\* origin.  The steps end with 0 <= rippleTimer < secondsPerRing, and
\* 0 <= rippleIndex <= maxRippleRing in every state, also after a long
\* press has moved the origin.
RingStepsOf(l) == SelectSeq(l, LAMBDA e : e.ev = "step")

RingCatchesUp ==
  /\ [](0 <= ringSeq.rippleIndex /\ ringSeq.rippleIndex <= ringSeq.maxRippleRing)
  /\ [][HasEv(ringSeq'.log, "advance") =>
          LET spr == secondsPerRing(ringSeq.bpm)
              elapsed == ringSeq.rippleTimer
                           + EvOf(ringSeq'.log, "advance").dt * RingRes
              n == elapsed \div spr
              taken == RingStepsOf(ringSeq'.log)
              rings == ringSeq.maxRippleRing + 1
              o == ringSeq.originTile[2]
          IN /\ Len(taken) = n
             /\ ringSeq'.rippleTimer = elapsed - n * spr
             /\ 0 <= ringSeq'.rippleTimer /\ ringSeq'.rippleTimer < spr
             /\ ringSeq'.rippleIndex = (ringSeq.rippleIndex + n) % rings
             /\ \A k \in 1 .. n :
                  /\ taken[k].index = (ringSeq.rippleIndex + k) % rings
                  /\ taken[k].tiles =
                       {i \in RingIdx : Manhattan(i, o) = taken[k].index}]_vars

\* three ring steps in one frame, around the corner tile a long press made
\* the origin
RingCatchesUpWitness ==
  /\ Len(RingStepsOf(ringSeq.log)) = 3
  /\ ringSeq.originTile[2] = 0
  /\ ringSeq.maxRippleRing = 12
  /\ ringSeq.rippleIndex = 3
  /\ ringSeq.rippleTimer > 0

\* C30: in the glass-garden sketch every upgrade has 0 <= level <= maxLevel
\* and lightScore >= 0, whatever clicks, frames and purchase attempts are
\* made.  A purchase attempt raises the level by exactly 1 and takes exactly
\* the current cost off lightScore when level < maxLevel and lightScore
\* covers the cost; otherwise it changes neither.  Nothing else changes a
\* level.
UpgradesBounded ==
  /\ [](/\ garden.lightScore >= 0
        /\ \A u \in UpgradeIdx :
             0 <= garden.level[u] /\ garden.level[u] <= upgrades[u].maxLevel)
  /\ [][/\ garden'.level # garden.level => HasEv(garden'.log, "purchase")
        /\ HasEv(garden'.log, "purchase") =>
             LET u == EvOf(garden'.log, "purchase").up
                 cost == costAt(upgrades[u], garden.level[u])
             IN IF garden.level[u] < upgrades[u].maxLevel
                   /\ garden.lightScore >= cost
                  THEN /\ garden'.level = [garden.level EXCEPT ![u] = @ + 1]
                       /\ garden'.lightScore = garden.lightScore - cost
                  ELSE /\ garden'.level = garden.level
                       /\ garden'.lightScore = garden.lightScore]_vars

\* a purchase refused at the top level of Seed Bloom, with light to spare
UpgradesBoundedWitness ==
  /\ HasEv(garden.log, "purchase")
  /\ EvOf(garden.log, "purchase").up = 2
  /\ EvOf(garden.log, "purchase").paid = 0
  /\ garden.level[2] = upgrades[2].maxLevel
  /\ garden.lightScore >= costAt(upgrades[2], 0)
====
